---------------------------- MODULE Spec2Model ----------------------------
(***************************************************************************)
(* phl-courts-scraper: the court summary parser.                           *)
(*                                                                         *)
(* The module holds one state machine per component of the parser:         *)
(*   SpecSchema  - CourtSummary.from_dict / to_json / from_json            *)
(*                 (court_summary/schema.py, utils.py DataclassSchema)     *)
(*   SpecYield   - the segment splitter yield_dockets                      *)
(*                 (court_summary/utils.py)                                *)
(*   Spec        - CourtSummaryParser.__call__ (court_summary/core.py)     *)
(*   SpecCharges - the charge table assembler parse_charges_table          *)
(*                 (court_summary/utils.py) and _parse_raw_docket          *)
(*                 (court_summary/core.py)                                 *)
(* and one per helper function, all on the variable fn:                    *)
(*   SpecStrip   - the header deletion of yield_dockets                    *)
(*   SpecHeader  - the "key: value" words of a docket header               *)
(*   SpecFind    - find_line_numbers, find_line_number and                 *)
(*                 parse_docket_header                                     *)
(*   SpecGroup   - group_into_lines (utils.py)                             *)
(*   SpecColumns - find_word_headers / _get_line_as_dict                   *)
(*   SpecKeys    - to_snake_case (utils.py)                                *)
(* and one for the download loop, on the variable dl:                      *)
(*   SpecScrape  - DownloadedPDFScraper.scrape_remote_urls (base.py) with  *)
(*                 downloaded_pdf (utils.py)                               *)
(* Every specification starts the variables of the other components at an  *)
(* idle value and leaves them unchanged.                                   *)
(***************************************************************************)
EXTENDS Integers, Sequences, FiniteSets, TLC

VARIABLES
    \* --- schema round trip ---
    parserOut,   \* the dict the parser hands to CourtSummary.from_dict
    report,      \* the CourtSummary the parser returns
    jsonDoc,     \* report.to_json()
    report2,     \* CourtSummary.from_json(jsonDoc)
    \* --- segment splitter ---
    yd,          \* one call of yield_dockets: its list of words, the index
                 \* of its for loop, what it returned and yielded so far
    \* --- CourtSummaryParser.__call__ ---
    call,        \* one call: the words of the document, the sorted sections,
                 \* the index of the section loop, the dockets collected
    \* --- charge assembler ---
    tbl,         \* one call of parse_charges_table / _parse_raw_docket
    \* --- helper functions ---
    fn,          \* one call of a helper function: its arguments and result
    \* --- DownloadedPDFScraper.scrape_remote_urls ---
    dl           \* one call: the loop over the urls, the retries of call(i),
                 \* the files of the download directory, the downloads of
                 \* the browser that have not finished

schemaVars == <<parserOut, report, jsonDoc, report2>>
yieldVars == <<yd>>
parserVars == <<call>>
chargeVars == <<tbl>>
helperVars == <<fn>>
scrapeVars == <<dl>>
\* what the actions of one component leave alone
nonSchemaVars == <<yieldVars, parserVars, chargeVars, helperVars, scrapeVars>>
nonYieldVars == <<schemaVars, parserVars, chargeVars, helperVars, scrapeVars>>
nonParserVars == <<schemaVars, yieldVars, chargeVars, helperVars, scrapeVars>>
nonChargeVars == <<schemaVars, yieldVars, parserVars, helperVars, scrapeVars>>
nonHelperVars == <<schemaVars, yieldVars, parserVars, chargeVars, scrapeVars>>
nonScrapeVars == <<schemaVars, yieldVars, parserVars, chargeVars, helperVars>>

vars ==
    <<schemaVars, yieldVars, parserVars, chargeVars, helperVars, scrapeVars>>

(***************************************************************************)
(* Python values.  Every value carries its type in field t, so that values *)
(* of different Python types are comparable and unequal.                   *)
(***************************************************************************)
PyStr(s) == [t |-> "str", s |-> s]
PyNone == [t |-> "None"]
PyDatetime(y, m, d) == [t |-> "datetime", y |-> y, m |-> m, d |-> d]
\* marshmallow.missing: the key is not in the input dict
Missing == [t |-> "missing"]
\* the outcome of a call that raised
Raised(e) == [t |-> "raised", e |-> e]
\* a variable that holds nothing yet
NotYet == [t |-> "notyet"]

IsRaised(v) == v.t = "raised"

\* Python truth value of a field value (`not value` in TimeField._serialize)
Truthy(v) ==
    CASE v.t = "None" -> FALSE
      [] v.t = "str" -> v.s # ""
      [] OTHER -> TRUE

(***************************************************************************)
(* datetime.strptime(text, "%m/%d/%Y") and datetime.strftime("%m/%d/%Y")   *)
(* on three date texts.  strptime accepts a month and a day     *)
(* without the leading zero; strftime always writes two digits.            *)
(***************************************************************************)
Strptime(text) ==
    CASE text = "01/02/2021" -> PyDatetime(2021, 1, 2)
      [] text = "1/2/2021" -> PyDatetime(2021, 1, 2)
      [] text = "12/31/1999" -> PyDatetime(1999, 12, 31)
      [] OTHER -> Raised("ValidationError")

Strftime(dt) ==
    CASE dt = PyDatetime(2021, 1, 2) -> "01/02/2021"
      [] dt = PyDatetime(1999, 12, 31) -> "12/31/1999"

(***************************************************************************)
(* TimeField (utils.py 35-54), a marshmallow DateTime field.               *)
(***************************************************************************)
\* for comparison: the inherited DateTime._serialize, without the `not value` test
TimeField_serialize_inherited(value) ==
    CASE value.t = "None" -> PyNone
      [] value.t = "datetime" -> PyStr(Strftime(value))
      [] OTHER -> value

TimeField_serialize(value) ==
    IF ~Truthy(value) THEN PyStr("")
    ELSE IF value.t = "datetime" THEN PyStr(Strftime(value))
    ELSE Raised("AttributeError")   \* super()._serialize formats a str

TimeField_deserialize(value) ==
    IF value = PyStr("") THEN PyNone
    ELSE IF value.t = "datetime" THEN value
    ELSE IF value.t = "str" THEN Strptime(value.s)
    ELSE Raised("ValidationError")

\* marshmallow Field.deserialize around _deserialize, for a field declared
\* with allow_none=True: a missing key takes the dataclass default (or the
\* load fails when the field has none), None is passed through.
HasDefault(default) == default # Missing

TimeField_load(value, default) ==
    IF value = Missing
    THEN IF HasDefault(default) THEN default ELSE Raised("ValidationError")
    ELSE IF value = PyNone THEN PyNone
    ELSE TimeField_deserialize(value)

\* a plain str field: loaded and dumped as it is
StrField_load(value, default) ==
    IF value = Missing
    THEN IF HasDefault(default) THEN default ELSE Raised("ValidationError")
    ELSE IF value.t = "str" THEN value
    ELSE Raised("ValidationError")

StrField_dump(value) == value

(***************************************************************************)
(* The dataclasses of court_summary/schema.py.  Of the str fields one is   *)
(* kept per class; the date fields are all kept.                           *)
(***************************************************************************)
OptDateFields ==
    {"next_action_date", "last_action_date", "trial_dt", "disp_date"}

\* default="" of the four optional date fields of Docket (schema.py 182-193)
OptDateDefault == PyStr("")

AnyRaised(s) == \E i \in DOMAIN s : IsRaised(s[i])

Get(d, key) == IF key \in DOMAIN d THEN d[key] ELSE Missing

\* --- Sentence (schema.py 30-35) ---
Sentence_load(d) ==
    LET ty == StrField_load(Get(d, "sentence_type"), Missing)
        dt == TimeField_load(Get(d, "sentence_dt"), Missing)
    IN  IF IsRaised(ty) \/ IsRaised(dt) THEN Raised("ValidationError")
        ELSE [t |-> "Sentence", sentence_type |-> ty, sentence_dt |-> dt]

Sentence_dump(o) ==
    [sentence_type |-> StrField_dump(o.sentence_type),
     sentence_dt |-> TimeField_serialize(o.sentence_dt)]

\* --- Charge (schema.py 70-75) ---
Charge_load(d) ==
    LET no == StrField_load(Get(d, "seq_no"), Missing)
        ss == [i \in DOMAIN d.sentences |-> Sentence_load(d.sentences[i])]
    IN  IF IsRaised(no) \/ AnyRaised(ss) THEN Raised("ValidationError")
        ELSE [t |-> "Charge", seq_no |-> no, sentences |-> ss]

Charge_dump(o) ==
    [seq_no |-> StrField_dump(o.seq_no),
     sentences |-> [i \in DOMAIN o.sentences |-> Sentence_dump(o.sentences[i])]]

\* --- Docket (schema.py 163-194) ---
Docket_load(d) ==
    LET no == StrField_load(Get(d, "docket_number"), Missing)
        ar == TimeField_load(Get(d, "arrest_dt"), Missing)
        opt == [f \in OptDateFields |->
                    TimeField_load(Get(d, f), OptDateDefault)]
        cs == [i \in DOMAIN d.charges |-> Charge_load(d.charges[i])]
    IN  IF \/ IsRaised(no) \/ IsRaised(ar) \/ AnyRaised(cs)
           \/ \E f \in OptDateFields : IsRaised(opt[f])
        THEN Raised("ValidationError")
        ELSE [t |-> "Docket", docket_number |-> no, arrest_dt |-> ar,
              next_action_date |-> opt["next_action_date"],
              last_action_date |-> opt["last_action_date"],
              trial_dt |-> opt["trial_dt"],
              disp_date |-> opt["disp_date"],
              charges |-> cs]

Docket_dump(o) ==
    [docket_number |-> StrField_dump(o.docket_number),
     arrest_dt |-> TimeField_serialize(o.arrest_dt),
     next_action_date |-> TimeField_serialize(o.next_action_date),
     last_action_date |-> TimeField_serialize(o.last_action_date),
     trial_dt |-> TimeField_serialize(o.trial_dt),
     disp_date |-> TimeField_serialize(o.disp_date),
     charges |-> [i \in DOMAIN o.charges |-> Charge_dump(o.charges[i])]]

\* --- CourtSummary (schema.py 275-283) ---
\* DataclassSchema.from_dict (utils.py 390-394): desert.schema(cls).load
from_dict(d) ==
    LET nm == StrField_load(Get(d, "name"), Missing)
        ds == [i \in DOMAIN d.dockets |-> Docket_load(d.dockets[i])]
    IN  IF IsRaised(nm) \/ AnyRaised(ds) THEN Raised("ValidationError")
        ELSE [t |-> "CourtSummary", name |-> nm, dockets |-> ds]

\* DataclassSchema.to_dict (utils.py 417-420): desert.schema(cls).dump
to_dict(o) ==
    [name |-> StrField_dump(o.name),
     dockets |-> [i \in DOMAIN o.dockets |-> Docket_dump(o.dockets[i])]]


(***************************************************************************)
(* json.dumps / json.loads (utils.py 413, 446).  A JSON document is the    *)
(* tree of its values: a str becomes a JSON string, None becomes null,     *)
(* lists and dicts keep their shape; a datetime cannot be written.         *)
(***************************************************************************)
JsonValue(v) ==
    CASE v.t = "str" -> [j |-> "string", s |-> v.s]
      [] v.t = "None" -> [j |-> "null"]
      [] OTHER -> Raised("TypeError")

PyValue(j) ==
    CASE j.j = "string" -> PyStr(j.s)
      [] j.j = "null" -> PyNone

json_dumps(d) ==
    [name |-> JsonValue(d.name),
     dockets |-> [i \in DOMAIN d.dockets |->
        LET k == d.dockets[i] IN
        [docket_number |-> JsonValue(k.docket_number),
         arrest_dt |-> JsonValue(k.arrest_dt),
         next_action_date |-> JsonValue(k.next_action_date),
         last_action_date |-> JsonValue(k.last_action_date),
         trial_dt |-> JsonValue(k.trial_dt),
         disp_date |-> JsonValue(k.disp_date),
         charges |-> [c \in DOMAIN k.charges |->
            [seq_no |-> JsonValue(k.charges[c].seq_no),
             sentences |-> [n \in DOMAIN k.charges[c].sentences |->
                LET se == k.charges[c].sentences[n] IN
                [sentence_type |-> JsonValue(se.sentence_type),
                 sentence_dt |-> JsonValue(se.sentence_dt)]]]]]]]

json_loads(d) ==
    [name |-> PyValue(d.name),
     dockets |-> [i \in DOMAIN d.dockets |->
        LET k == d.dockets[i] IN
        [docket_number |-> PyValue(k.docket_number),
         arrest_dt |-> PyValue(k.arrest_dt),
         next_action_date |-> PyValue(k.next_action_date),
         last_action_date |-> PyValue(k.last_action_date),
         trial_dt |-> PyValue(k.trial_dt),
         disp_date |-> PyValue(k.disp_date),
         charges |-> [c \in DOMAIN k.charges |->
            [seq_no |-> PyValue(k.charges[c].seq_no),
             sentences |-> [n \in DOMAIN k.charges[c].sentences |->
                LET se == k.charges[c].sentences[n] IN
                [sentence_type |-> PyValue(se.sentence_type),
                 sentence_dt |-> PyValue(se.sentence_dt)]]]]]]]

\* DataclassSchema.to_json (utils.py 422-446), path=None
to_json(o) == json_dumps(to_dict(o))

\* DataclassSchema.from_json (utils.py 396-415), given a JSON string
from_json(doc) == from_dict(json_loads(doc))

(***************************************************************************)
(* __len__ and __getitem__ of the three classes (schema.py 91-97, 217-227, *)
(* 308-318).  Python indexes from 0, a TLA+ sequence from 1.               *)
(***************************************************************************)
CourtSummary__len__(o) == Len(o.dockets)
\* for comparison: indexes from the end of the list
CourtSummary__getitem__fromEnd(o, index) == o.dockets[Len(o.dockets) - index]
CourtSummary__getitem__(o, index) == o.dockets[index + 1]
Docket__len__(o) == Len(o.charges)
Docket__getitem__(o, index) == o.charges[index + 1]
Charge__len__(o) == Len(o.sentences)
Charge__getitem__(o, index) == o.sentences[index + 1]

(***************************************************************************)
(* Words.  A word of the segment splitter is its text; the text is kept as *)
(* the parts the splitter reads: for a docket identifier such as           *)
(* "CP-046-CR-0000002-2020" the prefix "CP", the digits of the second       *)
(* hyphen-delimited segment and the remainder.                             *)
(***************************************************************************)
DocketId(prefix, code, tail) ==
    [k |-> "id", prefix |-> prefix, code |-> code, tail |-> tail]
\* "First Judicial District of Pennsylvania"
FJD == [k |-> "fjd"]
\* "<name> County Court of Common Pleas"
CountyCourt == [k |-> "countycourt"]
\* "Court Summary"
CourtSummaryText == [k |-> "courtsummary"]
\* a text that contains "Continued"
ContinuedText == [k |-> "continued"]
\* a section title: "Active", "Closed", ...
Title(name) == [k |-> "title", name |-> name]
\* any other text
Other == [k |-> "other"]

\* w.text.startswith("MC-") or w.text.startswith("CP-")
IsDocketNumber(text) == text.k = "id" /\ text.prefix \in {"MC", "CP"}

\* re.match(header_pattern, text) (utils.py 522); core.py 405 compares with
\* the first alternative only
MatchesHeaderPattern(variant, text) ==
    IF variant = "utils" THEN text.k \in {"fjd", "countycourt"}
    ELSE text.k = "fjd"

\* the test that deletes a word of the header block (utils.py 541-545,
\* core.py 416-423)
IsBoilerplate(variant, text) ==
    \/ text.k = "courtsummary"
    \/ MatchesHeaderPattern(variant, text)
    \/ text.k = "continued"

(***************************************************************************)
(* COUNTY_CODES (utils.py 16-84, core.py 20-88): keys "1".."67".  The key  *)
(* looked up is str(int(segment)), the decimal numeral of the segment's    *)
(* value, so the table is indexed here by that value.                      *)
(***************************************************************************)
COUNTY_CODES ==
    <<"Adams", "Allegheny", "Armstrong", "Beaver", "Bedford", "Berks",
      "Blair", "Bradford", "Bucks", "Butler", "Cambria", "Cameron", "Carbon",
      "Centre", "Chester", "Clarion", "Clearfield", "Clinton", "Columbia",
      "Crawford", "Cumberland", "Dauphin", "Delaware", "Elk", "Erie",
      "Fayette", "Forest", "Franklin", "Fulton", "Greene", "Huntingdon",
      "Indiana", "Jefferson", "Juniata", "Lackawanna", "Lancaster",
      "Lawrence", "Lebanon", "Lehigh", "Luzerne", "Lycoming", "McKean",
      "Mercer", "Mifflin", "Monroe", "Montgomery", "Montour", "Northampton",
      "Northumberland", "Perry", "Philadelphia", "Pike", "Potter",
      "Schuylkill", "Snyder", "Somerset", "Sullivan", "Susquehanna", "Tioga",
      "Union", "Venango", "Warren", "Washington", "Wayne", "Westmoreland",
      "Wyoming", "York">>

RECURSIVE IntOfDigits(_)
\* int("046") = 46
IntOfDigits(ds) ==
    IF ds = <<>> THEN 0 ELSE 10 * IntOfDigits(SubSeq(ds, 1, Len(ds) - 1))
                              + ds[Len(ds)]

\* int(this_docket_num.split("-")[1])
CountyCode(docket_number) == IntOfDigits(docket_number.code)

\* for comparison: a lookup with a default, COUNTY_CODES.get(key, "")
CountyLookupWithDefault(county_code) ==
    IF county_code \in DOMAIN COUNTY_CODES
    THEN PyStr(COUNTY_CODES[county_code])
    ELSE PyStr("")

\* COUNTY_CODES[str(county_code)]
CountyLookup(county_code) ==
    IF county_code \in DOMAIN COUNTY_CODES
    THEN PyStr(COUNTY_CODES[county_code])
    ELSE Raised("KeyError")

(***************************************************************************)
(* find_line_numbers (utils.py 427-496) with how="regex" on the header     *)
(* pattern: the indices (from 0) of the matching words, ascending.         *)
(***************************************************************************)
RECURSIVE IndicesWhere(_, _)
\* the indices i (from 0), ascending, with i + 1 in the set of positions ps
IndicesWhere(ps, n) ==
    IF n = 0 THEN <<>>
    ELSE IndicesWhere(ps, n - 1) \o (IF n \in ps THEN <<n - 1>> ELSE <<>>)

HeaderLineNumbers(variant, words) ==
    IndicesWhere({p \in DOMAIN words : MatchesHeaderPattern(variant, words[p])},
                 Len(words))

\* del words[index], index from 0
DeleteAt(words, index) ==
    SubSeq(words, 1, index) \o SubSeq(words, index + 2, Len(words))

(***************************************************************************)
(* yield_dockets (utils.py 499-586) and _yield_dockets (core.py 385-464).  *)
(* The state of one call is a record: words (the list `dockets`, edited in *)
(* place by the header deletion), i (the index of the for loop), returned, *)
(* yielded (one entry per yield: number, county, slice bounds and slice)   *)
(* and status: "called", "loop", "done" or "raised".                       *)
(***************************************************************************)
max_header_size == 5

RECURSIVE StripBlock(_, _, _, _)
\* for i in reversed(range(0, max_header_size)), from i downwards
StripBlock(variant, words, pg, i) ==
    IF i < 0 THEN words
    ELSE LET kept ==
                IF /\ pg + i < Len(words) - 1
                   /\ IsBoilerplate(variant, words[pg + i + 1])
                THEN DeleteAt(words, pg + i)
                ELSE words
         IN  StripBlock(variant, kept, pg, i - 1)

RECURSIVE StripPages(_, _, _)
\* for pg in reversed(pgs)
StripPages(variant, words, pgs) ==
    IF pgs = <<>> THEN words
    ELSE StripPages(variant,
                    StripBlock(variant, words, pgs[Len(pgs)],
                               max_header_size - 1),
                    SubSeq(pgs, 1, Len(pgs) - 1))

\* "Delete any headers" (utils.py 524-546, core.py 400-424)
StripHeaders(variant, words) ==
    StripPages(variant, words, HeaderLineNumbers(variant, words))

\* `indices` without its closing None (utils.py 549-554)
DocketIndices(words) ==
    IndicesWhere({p \in DOMAIN words : IsDocketNumber(words[p])}, Len(words))

\* `docket_numbers`
DocketNumbers(words) ==
    LET ix == DocketIndices(words) IN [n \in DOMAIN ix |-> words[ix[n] + 1]]

\* for comparison: nothing counts as returned
AlreadyReturnedNever(docket_number, returned) == FALSE

\* this_docket_num in returned_dockets
AlreadyReturned(docket_number, returned) ==
    \E n \in DOMAIN returned : returned[n] = docket_number

\* for comparison: no while loop, the slice ends at the next identifier
NextStartNoSkip(docket_numbers, this_docket_num, j) == j

RECURSIVE NextStart(_, _, _)
\* the while loop of utils.py 571-573, j from 0
NextStart(docket_numbers, this_docket_num, j) ==
    IF j < Len(docket_numbers) /\ this_docket_num = docket_numbers[j + 1]
    THEN NextStart(docket_numbers, this_docket_num, j + 1)
    ELSE j

\* the generator up to its for loop
yield_begin(variant, words) ==
    LET stripped == StripHeaders(variant, words) IN
    [variant |-> variant, words |-> stripped, i |-> 0,
     returned |-> <<>>, yielded |-> <<>>,
     status |-> IF variant = "core" /\ DocketIndices(stripped) = <<>>
                THEN "ValueError"   \* zip(*[]) unpacked into two names
                ELSE "loop"]

\* one pass of `for i in range(len(indices) - 1)`
yield_step(s) ==
    LET indices == DocketIndices(s.words)
        docket_numbers == DocketNumbers(s.words)
    IN
    IF s.i >= Len(indices) THEN [s EXCEPT !.status = "done"]
    ELSE
    LET this_docket_num == docket_numbers[s.i + 1]
        j == NextStart(docket_numbers, this_docket_num, s.i + 1)
        start == indices[s.i + 1]
        \* indices[j] is None when j is the last index: the slice runs to
        \* the end of the list
        stop == IF j < Len(indices) THEN indices[j + 1] ELSE Len(s.words)
        county == CountyLookup(CountyCode(this_docket_num))
    IN
    IF AlreadyReturned(this_docket_num, s.returned)
    THEN [s EXCEPT !.i = s.i + 1]
    ELSE IF IsRaised(county)
    THEN [s EXCEPT !.status = "KeyError"]
    ELSE [s EXCEPT
            !.i = s.i + 1,
            !.returned = Append(@, this_docket_num),
            !.yielded = Append(@,
                [docket_number |-> this_docket_num, county |-> county,
                 start |-> start, stop |-> stop,
                 words |-> SubSeq(s.words, start + 1, stop)])]

RECURSIVE yield_run(_)
\* the generator driven to its end, as `for ... in yield_dockets(...)` does
yield_run(s) == IF s.status = "loop" THEN yield_run(yield_step(s)) ELSE s

(***************************************************************************)
(* CourtSummaryParser.__call__ (core.py 479-553).                          *)
(***************************************************************************)
\* the section headers, in the order of the list `headers` (core.py 486-492)
headers == <<"Active", "Closed", "Inactive", "Archived", "Adjudicated">>

\* _find_line_numbers(words, text, return_all=True): the indices (from 0)
\* of the words whose text equals the title, ascending (core.py 361-372)
TitleLineNumbers(words, header) ==
    IndicesWhere({p \in DOMAIN words : words[p] = Title(header)}, Len(words))

\* the keys of `starts`, in insertion order (core.py 495-499)
RECURSIVE StartsKeys(_, _)
StartsKeys(words, n) ==
    IF n = 0 THEN <<>>
    ELSE StartsKeys(words, n - 1) \o
         (IF TitleLineNumbers(words, headers[n]) # <<>> THEN <<headers[n]>>
          ELSE <<>>)

\* starts[header]: the first match (return_all=False, core.py 380-381)
Starts(words, header) == TitleLineNumbers(words, header)[1]

\* itemgetter(1) applied to a key of `starts`, a str: its second character,
\* given as the position of that letter in the alphabet
itemgetter1(header) ==
    CASE header = "Active" -> 3          \* 'c'
      [] header = "Closed" -> 12         \* 'l'
      [] header = "Inactive" -> 14       \* 'n'
      [] header = "Archived" -> 18       \* 'r'
      [] header = "Adjudicated" -> 4     \* 'd'

RECURSIVE InsertByKey(_, _)
\* one insertion of a stable sort by itemgetter1
InsertByKey(sorted, header) ==
    IF sorted = <<>> THEN <<header>>
    ELSE IF itemgetter1(sorted[Len(sorted)]) <= itemgetter1(header)
    THEN Append(sorted, header)
    ELSE Append(InsertByKey(SubSeq(sorted, 1, Len(sorted) - 1), header),
                sorted[Len(sorted)])

RECURSIVE SortedByKey(_)
\* sorted(starts, key=itemgetter(1)) (core.py 502)
SortedByKey(keys) ==
    IF keys = <<>> THEN <<>>
    ELSE InsertByKey(SortedByKey(SubSeq(keys, 1, Len(keys) - 1)),
                     keys[Len(keys)])

\* `sections`
Sections(words) == SortedByKey(StartsKeys(words, Len(headers)))

\* for comparison: no section is skipped
SkipsNoSection(this_section) == FALSE

\* if this_section == "Archived": continue (core.py 512-513)
SkipsSection(this_section) == this_section = "Archived"

\* this_section.lower()
Lower(this_section) ==
    CASE this_section = "Active" -> "active"
      [] this_section = "Closed" -> "closed"
      [] this_section = "Inactive" -> "inactive"
      [] this_section = "Archived" -> "archived"
      [] this_section = "Adjudicated" -> "adjudicated"

\* this_section_start and next_section_start of pass i (from 0) of the
\* section loop (core.py 516-522); None is the length of the list
SectionStart(words, sections, i) == Starts(words, sections[i + 1])
SectionStop(words, sections, i) ==
    IF i < Len(sections) - 1 THEN Starts(words, sections[i + 2])
    ELSE Len(words)

\* words[start:stop] (core.py 525): empty when stop <= start
PySlice(words, start, stop) == SubSeq(words, start + 1, stop)

\* the generator of pass i run to its end over the section's words
SectionYield(words, sections, i) ==
    yield_run(yield_begin("core",
        PySlice(words, SectionStart(words, sections, i),
                SectionStop(words, sections, i))))

\* the `info` dicts of one section (core.py 528-547).  The header fields and
\* the charges that _parse_raw_docket reads from the docket's words are
\* kept as those words, with the span they have in the document.
SectionInfos(words, sections, i) ==
    LET yielded == SectionYield(words, sections, i).yielded
        offset == SectionStart(words, sections, i)
    IN  [n \in DOMAIN yielded |->
            [docket_number |-> yielded[n].docket_number,
             county |-> yielded[n].county,
             status |-> Lower(sections[i + 1]),
             words |-> yielded[n].words,
             start |-> offset + yielded[n].start,
             stop |-> offset + yielded[n].stop]]

(***************************************************************************)
(* parse_charges_table (utils.py 151-325) and _parse_raw_docket (core.py   *)
(* 110-252): the loop over the lines of the docket body.  A word is its x  *)
(* and its text; a str value of a row is the sequence of the texts joined  *)
(* by " "; a dict is the function from its keys.                           *)
(***************************************************************************)
Abs(n) == IF n < 0 THEN -n ELSE n

\* for comparison: abs(x0 - x1) < tol
check_abs_diff_strict(x0, x1, tol) == Abs(x0 - x1) < tol

\* check_abs_diff (utils.py 87-106), _vertically_aligned (core.py 91-92)
check_abs_diff(x0, x1, tol) == Abs(x0 - x1) <= tol

\* the header rows of the charges table as they stand in the docket: the
\* first holds the columns of a charge, the second the columns of a sentence
HeaderRow0 == <<[x |-> 0, text |-> "Seq No"], [x |-> 4, text |-> "Description"]>>
HeaderRow1 == <<[x |-> 2, text |-> "Sentence Dt."], [x |-> 4, text |-> "Sentence Type"]>>

\* `header_lines` after the duplicates are dropped (utils.py 182-206)
header_lines(multiline_header) ==
    IF multiline_header THEN <<HeaderRow0, HeaderRow1>> ELSE <<HeaderRow0>>

\* [w.text for w in line]
Texts(line) == [n \in DOMAIN line |-> line[n].text]

\* `header_values`
header_values(multiline_header) ==
    [n \in DOMAIN header_lines(multiline_header) |->
        Texts(header_lines(multiline_header)[n])]

\* str.isdigit on the texts of the model
isdigit(text) == text \in {"1", "2"}

\* find_nearest (phl_courts_scraper/utils.py 356-360): the first index, from
\* 1 here, of the least absolute difference
find_nearest(array, value) ==
    CHOOSE n \in DOMAIN array :
        /\ \A m \in DOMAIN array : Abs(array[n] - value) <= Abs(array[m] - value)
        /\ \A m \in DOMAIN array :
            Abs(array[m] - value) = Abs(array[n] - value) => n <= m

\* the column header nearest to a word
NearestColumn(header, word) ==
    header[find_nearest([n \in DOMAIN header |-> header[n].x], word.x)].text

\* find_word_headers (utils.py 109-148), _get_line_as_dict (core.py 99-107):
\* a later word of the line overwrites an earlier one of the same column
find_word_headers(line, header) ==
    [col \in {NearestColumn(header, line[n]) : n \in DOMAIN line} |->
        LET last == CHOOSE n \in DOMAIN line :
                /\ NearestColumn(header, line[n]) = col
                /\ \A m \in DOMAIN line :
                    NearestColumn(header, line[m]) = col => m <= n
        IN  <<line[last].text>>]

\* the dict of a charge row: its column fields and, once a charge line was
\* read, the key "sentences"
EmptyRow ==
    [t |-> "dict", fields |-> [col \in {} |-> <<>>], has_sentences |-> FALSE,
     sentences |-> <<>>]

\* `row` before the loop: {} in utils.py 244, None in core.py 190
InitialRow(variant) == IF variant = "utils" THEN EmptyRow ELSE PyNone

\* for comparison: `row` appended whatever it holds
RowIsSavedAlways(variant, row) == TRUE

\* `if len(row):` (utils.py 267), `if row is not None:` (core.py 211)
RowIsSaved(variant, row) ==
    IF variant = "utils"
    THEN Cardinality(DOMAIN row.fields) + (IF row.has_sentences THEN 1 ELSE 0) > 0
    ELSE row.t # "None"

\* `key in row`
KeyInRow(key, row) ==
    key \in DOMAIN row.fields \/ (key = "sentences" /\ row.has_sentences)

\* `key in row["sentences"]` (utils.py 309, core.py 237): the list holds the
\* sentence dicts, and a str equals none of them
KeyInSentences(key, sentences) == FALSE

\* for comparison: the branches without the skip of the docket number line
LineKindNumberRead(multiline_header, docket_number, line) ==
    IF \E n \in DOMAIN header_values(multiline_header) :
            header_values(multiline_header)[n] = Texts(line)
    THEN "header"
    ELSE IF /\ isdigit(line[1].text)
            /\ check_abs_diff(line[1].x, header_lines(multiline_header)[1][1].x, 1)
    THEN "charge"
    ELSE IF /\ multiline_header
            /\ check_abs_diff(line[1].x, header_lines(multiline_header)[2][1].x, 1)
    THEN "sentence"
    ELSE "continued"

\* the branch a line takes (utils.py 251-300, core.py 197-230)
LineKind(multiline_header, docket_number, line) ==
    IF \E n \in DOMAIN header_values(multiline_header) :
            header_values(multiline_header)[n] = Texts(line)
    THEN "header"
    ELSE IF line[1].text = docket_number THEN "docket_number"
    ELSE IF /\ isdigit(line[1].text)
            /\ check_abs_diff(line[1].x, header_lines(multiline_header)[1][1].x, 1)
    THEN "charge"
    ELSE IF /\ multiline_header
            /\ check_abs_diff(line[1].x, header_lines(multiline_header)[2][1].x, 1)
    THEN "sentence"
    ELSE "continued"

\* the for loop over line_dict of a continued field (utils.py 306-310)
ContinueFields(row, line_dict) ==
    [row EXCEPT !.fields =
        [key \in DOMAIN row.fields |->
            IF key \in DOMAIN line_dict /\ KeyInRow(key, row)
            THEN row.fields[key] \o <<" ">> \o line_dict[key]
            ELSE row.fields[key]]]

\* _format_key and the join of to_snake_case (phl_courts_scraper/utils.py
\* 337-344) on the keys of the table: "." removed, lower case, the blanks
\* between the words replaced by "_"
format_key(key) ==
    CASE key = "Seq No" -> "seq_no"
      [] key = "Description" -> "description"
      [] key = "Sentence Dt." -> "sentence_dt"
      [] key = "Sentence Type" -> "sentence_type"
      [] OTHER -> key

\* --- to_snake_case on keys given as their characters ---
\* _format_key (phl_courts_scraper/utils.py 337-340): every character of
\* `replace` (".") removed, then str.lower
FormatKey(key) ==
    LET kept == SelectSeq(key, LAMBDA ch : ch # ".")
    IN  [n \in DOMAIN kept |-> IF kept[n] = "A" THEN "a" ELSE kept[n]]

RECURSIVE SplitWords(_, _)
\* str.split(): the maximal runs of characters that are not whitespace;
\* word is the run collected so far
SplitWords(key, word) ==
    IF key = <<>> THEN (IF word = <<>> THEN <<>> ELSE <<word>>)
    ELSE IF key[1] = " "
    THEN (IF word = <<>> THEN <<>> ELSE <<word>>) \o SplitWords(Tail(key), <<>>)
    ELSE SplitWords(Tail(key), Append(word, key[1]))

RECURSIVE JoinWordsWithDot(_)
\* for comparison: ".".join(words)
JoinWordsWithDot(words) ==
    IF words = <<>> THEN <<>>
    ELSE IF Len(words) = 1 THEN words[1]
    ELSE words[1] \o <<".">> \o JoinWordsWithDot(Tail(words))

RECURSIVE JoinWords(_)
\* "_".join(words)
JoinWords(words) ==
    IF words = <<>> THEN <<>>
    ELSE IF Len(words) = 1 THEN words[1]
    ELSE words[1] \o <<"_">> \o JoinWords(Tail(words))

\* "_".join(_format_key(key).split())
SnakeKey(key) == JoinWords(SplitWords(FormatKey(key), <<>>))

RECURSIVE SnakeItems(_)
\* the dict comprehension of to_snake_case over d.items(), a list of
\* <<key, value>>: a key that comes again keeps its place and takes the
\* later value
SnakeItems(items) ==
    IF items = <<>> THEN <<>>
    ELSE LET before == SnakeItems(SubSeq(items, 1, Len(items) - 1))
             key == SnakeKey(items[Len(items)][1])
             value == items[Len(items)][2]
         IN  IF \E n \in DOMAIN before : before[n][1] = key
             THEN [n \in DOMAIN before |->
                    IF before[n][1] = key THEN <<key, value>> ELSE before[n]]
             ELSE Append(before, <<key, value>>)

\* a dict as the function from its keys, for ==
DictOf(items) ==
    [key \in {items[n][1] : n \in DOMAIN items} |->
        items[CHOOSE n \in DOMAIN items : items[n][1] = key][2]]

\* to_snake_case (phl_courts_scraper/utils.py 314-344)
to_snake_case(d) ==
    [new \in {format_key(key) : key \in DOMAIN d} |->
        d[CHOOSE key \in DOMAIN d : format_key(key) = new]]

\* the charges as returned (utils.py 321-323)
FormatCharges(charges) ==
    [n \in DOMAIN charges |->
        [fields |-> to_snake_case(charges[n].fields),
         sentences |-> [m \in DOMAIN charges[n].sentences |->
                            to_snake_case(charges[n].sentences[m])]]]

\* one pass of `for i, y in enumerate(lines_y)` on the line, which is the
\* last one or not
table_step(s, line, last) ==
    LET kind == LineKind(s.multiline_header, s.docket_number, line)
        hl == header_lines(s.multiline_header)
        read == [s EXCEPT !.i = @ + 1, !.line = line, !.exhausted = last]
        \* `if i == len(lines_y) - 1: charges.append(row)`
        Flush(t) == IF last THEN [t EXCEPT !.charges = Append(@, t.row)] ELSE t
    IN
    CASE kind \in {"header", "docket_number"} -> read
      [] kind = "charge" ->
            Flush([read EXCEPT
                !.charges = IF RowIsSaved(s.variant, s.row)
                            THEN Append(@, s.row) ELSE @,
                !.header = 1,
                !.row = [t |-> "dict", fields |-> find_word_headers(line, hl[1]),
                         has_sentences |-> TRUE, sentences |-> <<>>]])
      [] kind = "sentence" ->
            IF s.row.t = "None" THEN [read EXCEPT !.status = "TypeError"]
            ELSE IF ~s.row.has_sentences THEN [read EXCEPT !.status = "KeyError"]
            ELSE Flush([read EXCEPT
                    !.header = 2,
                    !.row.sentences = Append(@, find_word_headers(line, hl[2]))])
      [] kind = "continued" ->
            IF s.header = 0 THEN [read EXCEPT !.status = "UnboundLocalError"]
            ELSE Flush([read EXCEPT
                    !.row = ContinueFields(s.row,
                                find_word_headers(line, hl[s.header]))])

(***************************************************************************)
(* The dicts the parser builds (core.py 534-551): the date of a header     *)
(* entry is the text after the ':' (possibly empty), and an entry that the *)
(* docket header does not have is not a key of the dict.                   *)
(***************************************************************************)
\* the most dockets, charges and sentences, all together, of one report
MaxNodes == 3

ArrestInputs == {PyStr(""), PyStr("01/02/2021")}
OptDateInputs == {Missing, PyStr(""), PyStr("12/31/1999")}
TrialDateInputs == {Missing, PyStr("12/31/1999")}
SentenceDtInputs == {PyStr(""), PyStr("01/02/2021"), PyStr("1/2/2021")}

\* the dict without the optional date keys whose value is Missing
DropMissing(d) ==
    [k \in {x \in DOMAIN d : x \notin OptDateFields \/ d[x] # Missing} |->
        d[k]]

\* a docket dict without charges; the two action dates share one input, and
\* so do the trial and disposition dates
RawDocket(ar, a, b) ==
    DropMissing(
        [docket_number |-> PyStr("MC-51-CR-0000001-2021"),
         arrest_dt |-> ar,
         next_action_date |-> a, last_action_date |-> a,
         trial_dt |-> b, disp_date |-> b,
         charges |-> <<>>])

RawCharge == [seq_no |-> PyStr("1"), sentences |-> <<>>]

RawSentence(dt) ==
    [sentence_type |-> PyStr("Probation"), sentence_dt |-> dt]

RECURSIVE SumLen(_)
SumLen(s) == IF s = <<>> THEN 0 ELSE Len(Head(s).sentences) + SumLen(Tail(s))

RECURSIVE Nodes(_)
\* the dockets, charges and sentences of a list of docket dicts
Nodes(ds) ==
    IF ds = <<>> THEN 0
    ELSE 1 + Len(Head(ds).charges) + SumLen(Head(ds).charges)
           + Nodes(Tail(ds))

(***************************************************************************)
(* The round trip as a state machine.                                      *)
(***************************************************************************)
(***************************************************************************)
(* One call of the segment splitter as a state machine.                    *)
(***************************************************************************)
\* the most words of a section handed to the splitter
MaxWords == 5

IdA == DocketId("MC", <<5, 1>>, "CR-0000001-2021")
IdB == DocketId("CP", <<0, 4, 6>>, "CR-0000002-2020")
\* a county code that the table does not have
IdC == DocketId("MC", <<6, 8>>, "CR-0000003-2019")

YieldAlphabet == {IdA, IdB, IdC, Other, FJD}

\* no call of the splitter is under way
YieldIdle == yd = NotYet

\* no call of the parser is under way
ParserIdle == call = NotYet

\* no call of the charge assembler is under way
ChargesIdle == tbl = NotYet

\* no call of a helper function is under way
HelperIdle == fn = NotYet

ScrapeIdle == dl = NotYet

\* no report is being built or stored
SchemaIdle ==
    /\ parserOut = NotYet
    /\ report = NotYet
    /\ jsonDoc = NotYet
    /\ report2 = NotYet

InitYield ==
    /\ \E n \in 0..MaxWords, variant \in {"utils", "core"} :
        \E words \in [1..n -> YieldAlphabet] :
            yd = [variant |-> variant, words |-> words, i |-> 0,
                  returned |-> <<>>, yielded |-> <<>>, status |-> "called"]
    /\ SchemaIdle
    /\ ParserIdle
    /\ ChargesIdle
    /\ HelperIdle
    /\ ScrapeIdle

\* the first next() on the generator: the code before the for loop
YieldBegin ==
    /\ yd.status = "called"
    /\ yd' = yield_begin(yd.variant, yd.words)
    /\ UNCHANGED nonYieldVars

\* a pass of the for loop that skips a docket already returned
YieldSkip ==
    /\ yd.status = "loop"
    /\ yd.i < Len(DocketIndices(yd.words))
    /\ AlreadyReturned(DocketNumbers(yd.words)[yd.i + 1], yd.returned)
    /\ yd' = yield_step(yd)
    /\ UNCHANGED nonYieldVars

\* a pass of the for loop that yields a docket
YieldDocket ==
    /\ yd.status = "loop"
    /\ yd.i < Len(DocketIndices(yd.words))
    /\ yield_step(yd).status = "loop"
    /\ Len(yield_step(yd).yielded) > Len(yd.yielded)
    /\ yd' = yield_step(yd)
    /\ UNCHANGED nonYieldVars

\* a pass of the for loop that raises on the county lookup
YieldRaises ==
    /\ yd.status = "loop"
    /\ yield_step(yd).status = "KeyError"
    /\ yd' = yield_step(yd)
    /\ UNCHANGED nonYieldVars

\* the for loop ends
YieldEnds ==
    /\ yd.status = "loop"
    /\ yd.i >= Len(DocketIndices(yd.words))
    /\ yd' = yield_step(yd)
    /\ UNCHANGED nonYieldVars

NextYield ==
    \/ YieldBegin
    \/ YieldSkip
    \/ YieldDocket
    \/ YieldRaises
    \/ YieldEnds

SpecYield == InitYield /\ [][NextYield]_vars

(***************************************************************************)
(* One call of CourtSummaryParser.__call__ as a state machine.             *)
(***************************************************************************)
\* the most words of a document
MaxDocWords == 5

DocAlphabet ==
    {Title(headers[n]) : n \in DOMAIN headers} \cup {IdA, IdB, Other}

\* get_pdf_words appends one more word of the document (utils.py 241-311);
\* a section title stands once in a document
get_pdf_words ==
    /\ call.status = "reading"
    /\ Len(call.words) < MaxDocWords
    /\ \E w \in DocAlphabet :
        /\ w.k = "title" => \A p \in DOMAIN call.words : call.words[p] # w
        /\ call' = [call EXCEPT !.words = Append(@, w)]
    /\ UNCHANGED nonParserVars

\* the section starts are found and sorted (core.py 494-508)
SortSections ==
    /\ call.status = "reading"
    /\ call' = [call EXCEPT !.status = "sections",
                            !.sections = Sections(call.words)]
    /\ UNCHANGED nonParserVars

\* a pass of the section loop that skips its section
SectionSkipped ==
    /\ call.status = "sections"
    /\ call.i < Len(call.sections)
    /\ SkipsSection(call.sections[call.i + 1])
    /\ call' = [call EXCEPT !.i = @ + 1]
    /\ UNCHANGED nonParserVars

\* a pass of the section loop that parses the dockets of its section
SectionParsed ==
    /\ call.status = "sections"
    /\ call.i < Len(call.sections)
    /\ ~SkipsSection(call.sections[call.i + 1])
    /\ SectionYield(call.words, call.sections, call.i).status = "done"
    /\ call' = [call EXCEPT
            !.i = @ + 1,
            !.slices = Append(@,
                [section |-> call.sections[call.i + 1],
                 start |-> SectionStart(call.words, call.sections, call.i),
                 stop |-> SectionStop(call.words, call.sections, call.i)]),
            !.dockets = @ \o SectionInfos(call.words, call.sections, call.i)]
    /\ UNCHANGED nonParserVars

\* a pass of the section loop in which _yield_dockets raises; the dockets
\* it yielded before are appended, and the exception leaves the call
SectionRaises ==
    /\ call.status = "sections"
    /\ call.i < Len(call.sections)
    /\ ~SkipsSection(call.sections[call.i + 1])
    /\ SectionYield(call.words, call.sections, call.i).status # "done"
    /\ call' = [call EXCEPT
            !.status = SectionYield(call.words, call.sections, call.i).status,
            !.slices = Append(@,
                [section |-> call.sections[call.i + 1],
                 start |-> SectionStart(call.words, call.sections, call.i),
                 stop |-> SectionStop(call.words, call.sections, call.i)]),
            !.dockets = @ \o SectionInfos(call.words, call.sections, call.i)]
    /\ UNCHANGED nonParserVars

\* after the loop: _parse_header(words, sections[0]) and the return
\* (core.py 549-553); sections[0] of an empty list raises IndexError
ParserReturns ==
    /\ call.status = "sections"
    /\ call.i >= Len(call.sections)
    /\ call' = [call EXCEPT
            !.status = IF call.sections = <<>> THEN "IndexError" ELSE "done"]
    /\ UNCHANGED nonParserVars

Init ==
    /\ call = [status |-> "reading", words |-> <<>>, sections |-> <<>>,
               i |-> 0, slices |-> <<>>, dockets |-> <<>>]
    /\ SchemaIdle
    /\ YieldIdle
    /\ ChargesIdle
    /\ HelperIdle
    /\ ScrapeIdle

Next ==
    \/ get_pdf_words
    \/ SortSections
    \/ SectionSkipped
    \/ SectionParsed
    \/ SectionRaises
    \/ ParserReturns

Spec == Init /\ [][Next]_vars

(***************************************************************************)
(* The charge assembler as a state machine: the lines of the docket body   *)
(* come one by one, in the order of lines_y.                               *)
(***************************************************************************)
\* the most lines of a docket body
MaxLines == 3

TableDocketNumber == "MC-51-CR-0000001-2021"

BodyWords ==
    [x : {0, 1, 2, 4}, text : {"1", "a"}]
        \cup {[x |-> 0, text |-> TableDocketNumber]}

\* the lines group_into_lines can hand over: words in ascending x, and the
\* header rows of the table repeated in the body
LineChoices(multiline_header) ==
    {<<w>> : w \in BodyWords}
    \cup {l \in BodyWords \X BodyWords : l[1].x < l[2].x /\ l[2].text = "a"}
    \cup {header_lines(multiline_header)[n] :
            n \in DOMAIN header_lines(multiline_header)}

InitCharges ==
    /\ \E variant \in {"utils", "core"}, multiline_header \in BOOLEAN,
          empty \in BOOLEAN :
        tbl = [variant |-> variant, multiline_header |-> multiline_header,
               docket_number |-> TableDocketNumber,
               i |-> 0, line |-> <<>>, exhausted |-> empty,
               row |-> InitialRow(variant), charges |-> <<>>, header |-> 0,
               status |-> "loop", result |-> <<>>]
    /\ SchemaIdle
    /\ YieldIdle
    /\ ParserIdle
    /\ HelperIdle
    /\ ScrapeIdle

\* a pass that skips a header line or a line that starts with the docket
\* number
LineSkipped ==
    /\ tbl.status = "loop" /\ ~tbl.exhausted /\ tbl.i < MaxLines
    /\ \E line \in LineChoices(tbl.multiline_header), last \in BOOLEAN :
        /\ LineKind(tbl.multiline_header, tbl.docket_number, line)
                \in {"header", "docket_number"}
        /\ tbl' = table_step(tbl, line, last)
    /\ UNCHANGED nonChargeVars

\* OPTION 1: a pass that opens a charge
ChargeOpened ==
    /\ tbl.status = "loop" /\ ~tbl.exhausted /\ tbl.i < MaxLines
    /\ \E line \in LineChoices(tbl.multiline_header), last \in BOOLEAN :
        /\ LineKind(tbl.multiline_header, tbl.docket_number, line) = "charge"
        /\ tbl' = table_step(tbl, line, last)
    /\ UNCHANGED nonChargeVars

\* OPTION 2A: a pass that adds a sentence to the open charge
SentenceAdded ==
    /\ tbl.status = "loop" /\ ~tbl.exhausted /\ tbl.i < MaxLines
    /\ \E line \in LineChoices(tbl.multiline_header), last \in BOOLEAN :
        /\ LineKind(tbl.multiline_header, tbl.docket_number, line) = "sentence"
        /\ table_step(tbl, line, last).status = "loop"
        /\ tbl' = table_step(tbl, line, last)
    /\ UNCHANGED nonChargeVars

\* OPTION 2B: a pass that reads a continued field
FieldContinued ==
    /\ tbl.status = "loop" /\ ~tbl.exhausted /\ tbl.i < MaxLines
    /\ \E line \in LineChoices(tbl.multiline_header), last \in BOOLEAN :
        /\ LineKind(tbl.multiline_header, tbl.docket_number, line) = "continued"
        /\ table_step(tbl, line, last).status = "loop"
        /\ tbl' = table_step(tbl, line, last)
    /\ UNCHANGED nonChargeVars

\* a pass that raises: a sentence or a continued field before any charge
LineRaises ==
    /\ tbl.status = "loop" /\ ~tbl.exhausted /\ tbl.i < MaxLines
    /\ \E line \in LineChoices(tbl.multiline_header), last \in BOOLEAN :
        /\ table_step(tbl, line, last).status # "loop"
        /\ tbl' = table_step(tbl, line, last)
    /\ UNCHANGED nonChargeVars

\* after the loop: the keys are put in snake case and the charges returned
TableReturns ==
    /\ tbl.status = "loop" /\ tbl.exhausted
    /\ tbl' = [tbl EXCEPT !.status = "done",
                          !.result = FormatCharges(tbl.charges)]
    /\ UNCHANGED nonChargeVars

NextCharges ==
    \/ LineSkipped
    \/ ChargeOpened
    \/ SentenceAdded
    \/ FieldContinued
    \/ LineRaises
    \/ TableReturns

SpecCharges == InitCharges /\ [][NextCharges]_vars

(***************************************************************************)
(* The header deletion of yield_dockets / _yield_dockets on a stream whose *)
(* words carry the index they have in the stream handed over.              *)
(***************************************************************************)
\* the most words of a stream
MaxStream == 8

StreamKinds == {"fjd", "courtsummary", "continued", "other"}

InitStrip ==
    /\ \E variant \in {"utils", "core"} :
        fn = [variant |-> variant, input |-> <<>>, words |-> NotYet,
              status |-> "input"]
    /\ SchemaIdle
    /\ YieldIdle
    /\ ParserIdle
    /\ ChargesIdle
    /\ ScrapeIdle

\* one more word on the stream
WordArrives ==
    /\ fn.status = "input"
    /\ Len(fn.input) < MaxStream
    /\ \E k \in StreamKinds :
        fn' = [fn EXCEPT !.input = Append(@, [k |-> k, at |-> Len(fn.input)])]
    /\ UNCHANGED nonHelperVars

\* "Delete any headers" (utils.py 524-546, core.py 400-424)
HeadersDeleted ==
    /\ fn.status = "input"
    /\ fn' = [fn EXCEPT !.words = StripHeaders(fn.variant, fn.input),
                        !.status = "done"]
    /\ UNCHANGED nonHelperVars

NextStrip ==
    \/ WordArrives
    \/ HeadersDeleted

SpecStrip == InitStrip /\ [][NextStrip]_vars

(***************************************************************************)
(* The "key: value" words of a docket header (utils.py 211-233, core.py    *)
(* 164-179).  A text is a sequence of characters; "N" stands for the       *)
(* characters of the docket number.                                        *)
(***************************************************************************)
RECURSIVE SplitColon(_, _)
\* text.split(":"): the parts between the colons, at least one; part is the
\* part collected so far
SplitColon(text, part) ==
    IF text = <<>> THEN <<part>>
    ELSE IF text[1] = ":" THEN <<part>> \o SplitColon(Tail(text), <<>>)
    ELSE SplitColon(Tail(text), Append(part, text[1]))

RECURSIVE Strip(_)
\* s.strip()
Strip(s) ==
    IF s = <<>> THEN <<>>
    ELSE IF s[1] = " " THEN Strip(Tail(s))
    ELSE IF s[Len(s)] = " " THEN Strip(SubSeq(s, 1, Len(s) - 1))
    ELSE s

\* header_info: [s.strip() for s in w.text.split(":")] for w in
\* docket_header[1:]
HeaderInfo(texts) ==
    [n \in DOMAIN texts |->
        LET parts == SplitColon(texts[n], <<>>)
        IN  [m \in DOMAIN parts |-> Strip(parts[m])]]

\* for comparison: d.setdefault(key, value)
SetDefault(items, key, value) ==
    IF \E n \in DOMAIN items : items[n][1] = key
    THEN items
    ELSE Append(items, <<key, value>>)

\* d[key] = value on a dict kept as the list of its items
SetItem(items, key, value) ==
    IF \E n \in DOMAIN items : items[n][1] = key
    THEN [n \in DOMAIN items |->
            IF items[n][1] = key THEN <<key, value>> ELSE items[n]]
    ELSE Append(items, <<key, value>>)

RECURSIVE DictFromPairs(_)
\* dict(header_info) (core.py 179)
DictFromPairs(pairs) ==
    IF pairs = <<>> THEN <<>>
    ELSE SetItem(DictFromPairs(SubSeq(pairs, 1, Len(pairs) - 1)),
                 pairs[Len(pairs)][1], pairs[Len(pairs)][2])

RECURSIVE HeaderLoop(_, _, _, _)
\* for i in reversed(range(0, len(header_info))), after the passes for the
\* indices from the last down to i (from 1 here); utils.py does
\* `extra += value` and fills header_info_dict, core.py does
\* `extra.append(value)`
HeaderLoop(variant, docket_number, header_info, i) ==
    IF i > Len(header_info)
    THEN [header_info |-> header_info, extra |-> <<>>,
          header_info_dict |-> <<>>]
    ELSE LET s == HeaderLoop(variant, docket_number, header_info, i + 1)
             value == header_info[i]
         IN  IF Len(value) # 2
             THEN [s EXCEPT
                    !.header_info = DeleteAt(@, i - 1),
                    !.extra = IF value[1] # docket_number
                              THEN (IF variant = "utils" THEN @ \o value
                                    ELSE Append(@, value))
                              ELSE @]
             ELSE IF variant = "utils"
             THEN [s EXCEPT !.header_info_dict = SetItem(@, value[1], value[2])]
             ELSE s

\* the header dict before its keys are formatted, and `extra`
SplitHeader(variant, docket_number, texts) ==
    LET s == HeaderLoop(variant, docket_number, HeaderInfo(texts), 1)
    IN  [dict |-> IF variant = "utils" THEN s.header_info_dict
                  ELSE DictFromPairs(s.header_info),
         extra |-> s.extra]

\* the most words of a docket header after the docket number
MaxHeaderWords == 3

HeaderDocketNumber == <<"N">>

HeaderTexts ==
    { <<"a", ":", "b">>, <<"a", ":", "a">>, <<" ", "b", ":", " ", "a">>,
      <<"a">>, <<"N">>, <<"N", ":", "a", ":", "b">>,
      <<"a", ":", "b", ":", "a">> }

InitHeader ==
    /\ \E variant \in {"utils", "core"} :
        fn = [variant |-> variant, texts |-> <<>>, info |-> NotYet,
              status |-> "input"]
    /\ SchemaIdle
    /\ YieldIdle
    /\ ParserIdle
    /\ ChargesIdle
    /\ ScrapeIdle

\* one more word in the docket header
HeaderWordArrives ==
    /\ fn.status = "input"
    /\ Len(fn.texts) < MaxHeaderWords
    /\ \E text \in HeaderTexts : fn' = [fn EXCEPT !.texts = Append(@, text)]
    /\ UNCHANGED nonHelperVars

HeaderSplit ==
    /\ fn.status = "input"
    /\ fn' = [fn EXCEPT
                !.info = SplitHeader(fn.variant, HeaderDocketNumber, fn.texts),
                !.status = "done"]
    /\ UNCHANGED nonHelperVars

NextHeader ==
    \/ HeaderWordArrives
    \/ HeaderSplit

SpecHeader == InitHeader /\ [][NextHeader]_vars

(***************************************************************************)
(* find_line_numbers, find_line_number and parse_docket_header (utils.py   *)
(* 365-496); _find_line_numbers and _parse_docket_header (core.py          *)
(* 287-382).  Lists and ints are tagged as the other Python values are.    *)
(***************************************************************************)
PyList(v) == [t |-> "list", v |-> v]

PyInt(v) == [t |-> "int", v |-> v]

\* the texts of the words of a docket, and the texts searched for
LineTexts == {"Seq No", "Seq No.", "x Seq No", "a"}

SearchTexts == {"Seq No", "a"}

\* `b in a` for the texts above
contains(a, b) ==
    \/ a = b
    \/ b = "Seq No" /\ a \in {"Seq No.", "x Seq No"}

\* `a == b`
equals(a, b) == a = b

\* re.match(b, a) is not None, for the texts above: b stands at the start
\* of a
matches(a, b) ==
    \/ a = b
    \/ b = "Seq No" /\ a = "Seq No."

tester(how, a, b) ==
    CASE how = "equals" -> equals(a, b)
      [] how = "contains" -> contains(a, b)
      [] OTHER -> matches(a, b)

\* listOfElements.index(True, indexPos), from 0; -1 for its ValueError
ListIndex(listOfElements, indexPos) ==
    IF \E p \in DOMAIN listOfElements : p > indexPos /\ listOfElements[p]
    THEN (CHOOSE p \in DOMAIN listOfElements :
            /\ p > indexPos
            /\ listOfElements[p]
            /\ \A q \in DOMAIN listOfElements :
                (q > indexPos /\ listOfElements[q]) => p <= q) - 1
    ELSE -1

\* for comparison: a loop that breaks after the first match
IndexLoopOnce(listOfElements, indexPos) ==
    LET found == ListIndex(listOfElements, indexPos)
    IN  IF found = -1 THEN <<>> ELSE <<found>>

RECURSIVE IndexLoop(_, _)
\* the `while True` loop: the entries appended to indexPosList from
\* indexPos on
IndexLoop(listOfElements, indexPos) ==
    LET found == ListIndex(listOfElements, indexPos)
    IN  IF found = -1 THEN <<>>
        ELSE <<found>> \o IndexLoop(listOfElements, found + 1)

\* find_line_numbers (utils.py 427-496)
find_line_numbers(words, text, how, missing) ==
    LET indexPosList ==
            IndexLoop([p \in DOMAIN words |-> tester(how, words[p], text)], 0)
    IN  IF indexPosList = <<>> /\ missing = "raise"
        THEN Raised("ValueError")
        ELSE PyList(indexPosList)

\* find_line_number (utils.py 395-424)
find_line_number(words, text, how, missing) ==
    LET indexPosList == find_line_numbers(words, text, how, missing)
    IN  IF IsRaised(indexPosList) THEN indexPosList
        ELSE IF Len(indexPosList.v) = 0 THEN PyNone
        ELSE PyInt(indexPosList.v[1])

\* _find_line_numbers (core.py 318-382)
_find_line_numbers(words, text, how, return_all, missing) ==
    LET indexPosList ==
            IndexLoop([p \in DOMAIN words |-> tester(how, words[p], text)], 0)
    IN  IF indexPosList = <<>>
        THEN (IF missing = "raise" THEN Raised("ValueError")
              ELSE PyList(<<>>))
        ELSE IF ~return_all THEN PyInt(indexPosList[1])
        ELSE PyList(indexPosList)

\* parse_docket_header (utils.py 365-392), _parse_docket_header (core.py
\* 287-315): grouping by y and flattening gives the words back; with the
\* charges of a docket without body (`if len(docket_body):`, utils.py 237,
\* core.py 183), "table" for the charges parsed from a body
parse_docket_header(variant, words) ==
    LET i == IF variant = "utils"
             THEN find_line_number(words, "Seq No", "equals", "ignore")
             ELSE _find_line_numbers(words, "Seq No", "equals", FALSE, "ignore")
        missing == IF variant = "utils" THEN i = PyNone ELSE i = PyList(<<>>)
        docket_body == IF missing THEN <<>>
                       ELSE SubSeq(words, i.v + 1, Len(words))
    IN  [docket_header |-> IF missing THEN words ELSE SubSeq(words, 1, i.v),
         docket_body |-> docket_body,
         charges |-> IF Len(docket_body) # 0 THEN PyStr("table")
                     ELSE PyList(<<>>)]

\* the most words of a docket
MaxFindWords == 4

InitFind ==
    /\ \E variant \in {"utils", "core"} :
        fn = [variant |-> variant, words |-> <<>>, text |-> "", how |-> "",
              missing |-> "", all |-> NotYet, first |-> NotYet,
              parsed |-> NotYet, status |-> "input"]
    /\ SchemaIdle
    /\ YieldIdle
    /\ ParserIdle
    /\ ChargesIdle
    /\ ScrapeIdle

\* one more word in the docket
FindWordArrives ==
    /\ fn.status = "input"
    /\ Len(fn.words) < MaxFindWords
    /\ \E text \in LineTexts : fn' = [fn EXCEPT !.words = Append(@, text)]
    /\ UNCHANGED nonHelperVars

\* the hows of each file's assert
Hows(variant) ==
    IF variant = "utils" THEN {"equals", "contains", "regex"}
    ELSE {"equals", "contains"}

\* the list of all matches (find_line_numbers; _find_line_numbers with
\* return_all=True) and the first one (find_line_number; _find_line_numbers
\* with return_all=False) of one search
FindResults(variant, words, text, how, missing) ==
    IF variant = "utils"
    THEN [all |-> find_line_numbers(words, text, how, missing),
          first |-> find_line_number(words, text, how, missing)]
    ELSE [all |-> _find_line_numbers(words, text, how, TRUE, missing),
          first |-> _find_line_numbers(words, text, how, FALSE, missing)]

\* a search that returns
FindReturns ==
    /\ fn.status = "input"
    /\ \E text \in SearchTexts, how \in Hows(fn.variant),
          missing \in {"raise", "ignore"} :
        LET r == FindResults(fn.variant, fn.words, text, how, missing)
        IN  /\ ~IsRaised(r.all)
            /\ fn' = [fn EXCEPT !.text = text, !.how = how,
                                !.missing = missing, !.all = r.all,
                                !.first = r.first, !.status = "returned"]
    /\ UNCHANGED nonHelperVars

\* a search that raises
FindRaises ==
    /\ fn.status = "input"
    /\ \E text \in SearchTexts, how \in Hows(fn.variant),
          missing \in {"raise", "ignore"} :
        LET r == FindResults(fn.variant, fn.words, text, how, missing)
        IN  /\ IsRaised(r.all)
            /\ fn' = [fn EXCEPT !.text = text, !.how = how,
                                !.missing = missing, !.all = r.all,
                                !.first = r.first, !.status = r.all.e]
    /\ UNCHANGED nonHelperVars

\* the split of a docket into header and body
DocketHeaderParsed ==
    /\ fn.status = "input"
    /\ fn' = [fn EXCEPT !.parsed = parse_docket_header(fn.variant, fn.words),
                        !.status = "parsed"]
    /\ UNCHANGED nonHelperVars

NextFind ==
    \/ FindWordArrives
    \/ FindReturns
    \/ FindRaises
    \/ DocketHeaderParsed

SpecFind == InitFind /\ [][NextFind]_vars

(***************************************************************************)
(* group_into_lines (phl_courts_scraper/utils.py 363-380).  The tree is    *)
(* the set of the intervals added: Interval(y - tolerance, y + tolerance,  *)
(* word), equal intervals being one; tree[y] is the set of the intervals   *)
(* with begin <= y < end.  fn.result is the dict `result` as the list of   *)
(* its items <<y, values>>, fn.i the index of the for loop.                *)
(***************************************************************************)
\* the most words handed to group_into_lines
MaxGroupWords == 3

GroupWords == [x : 0..1, y : 0..4]

\* 3 is the tolerance parse_charges_table and _parse_raw_docket pass
Tolerances == {1, 3}

\* the intervals of the tree
Tree(words, tolerance) ==
    {[begin |-> words[n].y - tolerance, end |-> words[n].y + tolerance,
      data |-> words[n]] : n \in DOMAIN words}

\* [iv.data for iv in tree[y]], before the sort
At(tree, y) == {iv.data : iv \in {jv \in tree : jv.begin <= y /\ y < jv.end}}

RECURSIVE SortedSet(_)
\* sorted(np.unique(ys))
SortedSet(ys) ==
    IF ys = {} THEN <<>>
    ELSE LET least == CHOOSE y \in ys : \A z \in ys : y <= z
         IN  <<least>> \o SortedSet(ys \ {least})

\* sorted(objs, key=attrgetter("x")): the orders of the words of the set
\* with x ascending; the iteration order of the set decides between words
\* of the same x
SortedByX(objs) ==
    {values \in [1..Cardinality(objs) -> objs] :
        /\ \A n, m \in DOMAIN values : n # m => values[n] # values[m]
        /\ \A n \in DOMAIN values : n > 1 => values[n - 1].x <= values[n].x}

InitGroup ==
    /\ \E tolerance \in Tolerances :
        fn = [tolerance |-> tolerance, words |-> <<>>, ys |-> <<>>, i |-> 0,
              result |-> <<>>, status |-> "input"]
    /\ SchemaIdle
    /\ YieldIdle
    /\ ParserIdle
    /\ ChargesIdle
    /\ ScrapeIdle

\* one more word
GroupWordArrives ==
    /\ fn.status = "input"
    /\ Len(fn.words) < MaxGroupWords
    /\ \E w \in GroupWords : fn' = [fn EXCEPT !.words = Append(@, w)]
    /\ UNCHANGED nonHelperVars

\* the call: the tree is built and the unique y values are sorted
GroupBegins ==
    /\ fn.status = "input"
    /\ fn' = [fn EXCEPT
                !.ys = SortedSet({fn.words[n].y : n \in DOMAIN fn.words}),
                !.status = "loop"]
    /\ UNCHANGED nonHelperVars

\* one pass of `for y in sorted(np.unique(...))`
LineGrouped ==
    /\ fn.status = "loop"
    /\ fn.i < Len(fn.ys)
    /\ LET y == fn.ys[fn.i + 1]
       IN  \E values \in SortedByX(At(Tree(fn.words, fn.tolerance), y)) :
            fn' = [fn EXCEPT
                    !.i = @ + 1,
                    !.result =
                        IF \E n \in DOMAIN fn.result : fn.result[n][2] = values
                        THEN @
                        ELSE Append(@, <<y, values>>)]
    /\ UNCHANGED nonHelperVars

\* `return result`
GroupReturns ==
    /\ fn.status = "loop"
    /\ fn.i = Len(fn.ys)
    /\ fn' = [fn EXCEPT !.status = "done"]
    /\ UNCHANGED nonHelperVars

NextGroup ==
    \/ GroupWordArrives
    \/ GroupBegins
    \/ LineGrouped
    \/ GroupReturns

SpecGroup == InitGroup /\ [][NextGroup]_vars

(***************************************************************************)
(* DownloadedPDFScraper.scrape_remote_urls (base.py 130-229) with          *)
(* downloaded_pdf (utils.py 95-154) and the retries of tryagain around     *)
(* call(i).  A url is its index in `urls`; a file of the download          *)
(* directory is known by the url it was downloaded from, dl.dir counts the *)
(* files per url.  The browser downloads on its own: a download started by *)
(* driver.get is in dl.inflight until it finishes or the driver is closed. *)
(* dl.pc is the place of the call: "called", "get" (before driver.get),    *)
(* "poll" (the loop on the directory), "parse" (inside the with block),    *)
(* "sleep" (time.sleep(self.sleep)), "failed" (an exception is leaving     *)
(* call(i), the hooks of retries have not run yet), "returned", or the     *)
(* exception raised.                                                       *)
(* dl.tried is the set of the urls call(i) was made for.                   *)
(***************************************************************************)
\* the most urls of a call
MaxUrls == 2

\* the attempts of @retries; base.py 173 passes max_attempts=10
max_attempts == 2

\* the most of the argument time_limit, in units of `interval`
MaxTimeLimit == 1

\* pdf_path = None
NoPath == -1

InitScrape ==
    /\ \E errors \in {"ignore", "raise"}, n \in 0..MaxUrls,
          time_limit \in 0..MaxTimeLimit :
        dl = [errors |-> errors, n |-> n, time_limit |-> time_limit, i |-> 0,
              attempt |-> 1, pc |-> "called", total_sleep |-> 0,
              pdf_path |-> NoPath, results |-> <<>>,
              dir |-> [u \in 0..n - 1 |-> 0], inflight |-> {}, tried |-> {}]
    /\ SchemaIdle
    /\ YieldIdle
    /\ ParserIdle
    /\ ChargesIdle
    /\ HelperIdle

\* the files pdf_files = list(download_dir.glob("*.pdf")) can start with
PdfFiles(s) == {u \in DOMAIN s.dir : s.dir[u] > 0}

\* the `except Exception` and `finally` clauses of the loop (base.py
\* 212-227): the call ends, with the results under errors="ignore"
LoopExcept(s) ==
    [s EXCEPT !.pc = IF s.errors = "ignore" THEN "returned" ELSE "raised"]

\* an exception leaves call(i): cleanup_hook closes the driver, and with it
\* end the downloads it had not finished; after the last attempt the
\* exception goes on to the loop, else pre_retry_hook makes a new driver on
\* the same directory and call(i) runs again (base.py 167-179)
AttemptFails(s) ==
    LET closed == [s EXCEPT !.inflight = {}, !.pdf_path = NoPath,
                            !.total_sleep = 0]
    IN  IF s.attempt = max_attempts THEN LoopExcept(closed)
        ELSE [closed EXCEPT !.attempt = @ + 1, !.pc = "get"]

\* retries catches the exception of call(i) and runs its hooks
AttemptFailed ==
    /\ dl.pc = "failed"
    /\ dl' = AttemptFails(dl)
    /\ UNCHANGED nonScrapeVars

\* `for i in range(N)` starts; without urls `i` is never bound and the
\* finally clause (base.py 227) raises
LoopBegins ==
    /\ dl.pc = "called"
    /\ dl' = IF dl.n = 0 THEN [dl EXCEPT !.pc = "UnboundLocalError"]
             ELSE [dl EXCEPT !.pc = "get", !.tried = {0}]
    /\ UNCHANGED nonScrapeVars

\* driver.get(pdf_url) returns: the browser downloads the url
GetStarts ==
    /\ dl.pc = "get"
    /\ dl' = [dl EXCEPT !.inflight = @ \cup {dl.i}, !.pc = "poll",
                        !.total_sleep = 0]
    /\ UNCHANGED nonScrapeVars

\* driver.get(pdf_url) raises
GetRaises ==
    /\ dl.pc = "get"
    /\ dl' = [dl EXCEPT !.pc = "failed"]
    /\ UNCHANGED nonScrapeVars

\* the browser finishes a download: its file is in the directory
DownloadFinishes ==
    /\ dl.pc \in {"get", "poll", "parse", "sleep", "failed"}
    /\ \E u \in dl.inflight :
        dl' = [dl EXCEPT !.inflight = @ \ {u}, !.dir[u] = @ + 1]
    /\ UNCHANGED nonScrapeVars

\* the directory holds a PDF: pdf_path = pdf_files[0], whichever file glob
\* lists first, is yielded
PollFinds ==
    /\ dl.pc = "poll"
    /\ \E u \in PdfFiles(dl) : dl' = [dl EXCEPT !.pdf_path = u, !.pc = "parse"]
    /\ UNCHANGED nonScrapeVars

\* no PDF yet and total_sleep <= time_limit: time.sleep(interval)
PollWaits ==
    /\ dl.pc = "poll"
    /\ PdfFiles(dl) = {}
    /\ dl.total_sleep <= dl.time_limit
    /\ dl' = [dl EXCEPT !.total_sleep = @ + 1]
    /\ UNCHANGED nonScrapeVars

\* no PDF within the time limit: ValueError("PDF download failed"), and
\* pdf_path is None, so the finally clause removes nothing
PollTimesOut ==
    /\ dl.pc = "poll"
    /\ PdfFiles(dl) = {}
    /\ dl.total_sleep > dl.time_limit
    /\ dl' = [dl EXCEPT !.pc = "failed"]
    /\ UNCHANGED nonScrapeVars

\* the with block: the report parsed from pdf_path is appended, then the
\* finally clause of downloaded_pdf removes the file
ParseAppends ==
    /\ dl.pc = "parse"
    /\ dl' = [dl EXCEPT
                !.results = Append(@, [url |-> dl.i, file |-> dl.pdf_path]),
                !.dir[dl.pdf_path] = @ - 1,
                !.pdf_path = NoPath,
                !.pc = "sleep"]
    /\ UNCHANGED nonScrapeVars

\* self(pdf_path) raises: the finally clause removes the file, the attempt
\* has failed
ParseRaises ==
    /\ dl.pc = "parse"
    /\ dl' = [dl EXCEPT !.dir[dl.pdf_path] = @ - 1, !.pdf_path = NoPath,
                        !.pc = "failed"]
    /\ UNCHANGED nonScrapeVars

\* time.sleep(self.sleep) ends, call(i) returns: the next url, or the
\* return of the results
SleepEnds ==
    /\ dl.pc = "sleep"
    /\ dl' = IF dl.i + 1 < dl.n
             THEN [dl EXCEPT !.i = @ + 1, !.attempt = 1, !.pc = "get",
                             !.tried = @ \cup {dl.i + 1}]
             ELSE [dl EXCEPT !.pc = "returned"]
    /\ UNCHANGED nonScrapeVars

NextScrape ==
    \/ LoopBegins
    \/ GetStarts
    \/ GetRaises
    \/ DownloadFinishes
    \/ PollFinds
    \/ PollWaits
    \/ PollTimesOut
    \/ ParseAppends
    \/ ParseRaises
    \/ AttemptFailed
    \/ SleepEnds

SpecScrape == InitScrape /\ [][NextScrape]_vars

(***************************************************************************)
(* find_word_headers / _get_line_as_dict called on a line and on the same  *)
(* words in another order.                                                 *)
(***************************************************************************)
\* the most words of a line
MaxLineWords == 2

ColumnWords == [x : 0..4, text : {"a", "b"}]

\* the list with the word put in at position pos (from 0)
InsertAt(line, pos, w) ==
    SubSeq(line, 1, pos) \o <<w>> \o SubSeq(line, pos + 1, Len(line))

InitColumns ==
    /\ \E header \in {HeaderRow0, HeaderRow1} :
        fn = [header |-> header, line |-> <<>>, line2 |-> <<>>,
              out |-> NotYet, out2 |-> NotYet, status |-> "input"]
    /\ SchemaIdle
    /\ YieldIdle
    /\ ParserIdle
    /\ ChargesIdle
    /\ ScrapeIdle

\* one more word on the line; the second list holds it at any position
WordJoinsLine ==
    /\ fn.status = "input"
    /\ Len(fn.line) < MaxLineWords
    /\ \E w \in ColumnWords, pos \in 0..Len(fn.line2) :
        fn' = [fn EXCEPT !.line = Append(@, w),
                         !.line2 = InsertAt(@, pos, w)]
    /\ UNCHANGED nonHelperVars

\* find_word_headers(line, header) and find_word_headers(line2, header)
MapLines ==
    /\ fn.status = "input"
    /\ fn' = [fn EXCEPT !.out = find_word_headers(fn.line, fn.header),
                        !.out2 = find_word_headers(fn.line2, fn.header),
                        !.status = "done"]
    /\ UNCHANGED nonHelperVars

NextColumns ==
    \/ WordJoinsLine
    \/ MapLines

SpecColumns == InitColumns /\ [][NextColumns]_vars

(***************************************************************************)
(* to_snake_case called on a dict of two keys, and again on its result.    *)
(***************************************************************************)
\* the most characters of a key
MaxKeyLen == 3

KeyChars == {"A", "a", ".", " "}

InitKeys ==
    /\ fn = [key1 |-> <<>>, key2 |-> <<>>, once |-> NotYet, twice |-> NotYet,
             status |-> "input"]
    /\ SchemaIdle
    /\ YieldIdle
    /\ ParserIdle
    /\ ChargesIdle
    /\ ScrapeIdle

\* one more character on one of the two keys
KeyGrows ==
    /\ fn.status = "input"
    /\ \E ch \in KeyChars :
        \/ /\ Len(fn.key1) < MaxKeyLen
           /\ fn' = [fn EXCEPT !.key1 = Append(@, ch)]
        \/ /\ Len(fn.key2) < MaxKeyLen
           /\ fn' = [fn EXCEPT !.key2 = Append(@, ch)]
    /\ UNCHANGED nonHelperVars

\* to_snake_case(d) and to_snake_case(to_snake_case(d)) for
\* d = {key1: 1, key2: 2}
SnakeTwice ==
    /\ fn.status = "input"
    /\ fn.key1 # fn.key2
    /\ fn' = [fn EXCEPT
            !.once = SnakeItems(<<<<fn.key1, 1>>, <<fn.key2, 2>>>>),
            !.twice = SnakeItems(SnakeItems(<<<<fn.key1, 1>>, <<fn.key2, 2>>>>)),
            !.status = "done"]
    /\ UNCHANGED nonHelperVars

NextKeys ==
    \/ KeyGrows
    \/ SnakeTwice

SpecKeys == InitKeys /\ [][NextKeys]_vars

InitSchema ==
    /\ parserOut = [name |-> PyStr("Doe, John"), dockets |-> <<>>]
    /\ report = NotYet
    /\ jsonDoc = NotYet
    /\ report2 = NotYet
    /\ YieldIdle
    /\ ParserIdle
    /\ ChargesIdle
    /\ HelperIdle
    /\ ScrapeIdle

Building ==
    /\ parserOut # NotYet
    /\ report = NotYet
    /\ Nodes(parserOut.dockets) < MaxNodes

\* dockets.append(info) (core.py 547)
ParserAppendsDocket ==
    /\ Building
    /\ \E ar \in ArrestInputs, a \in OptDateInputs, b \in TrialDateInputs :
        parserOut' = [parserOut EXCEPT
            !.dockets = Append(@, RawDocket(ar, a, b))]
    /\ UNCHANGED <<report, jsonDoc, report2, nonSchemaVars>>

\* results.append(row) for the docket being parsed (core.py 212, 241)
ParserAppendsCharge ==
    /\ Building
    /\ parserOut.dockets # <<>>
    /\ LET n == Len(parserOut.dockets) IN
        parserOut' = [parserOut EXCEPT
            !.dockets[n].charges = Append(@, RawCharge)]
    /\ UNCHANGED <<report, jsonDoc, report2, nonSchemaVars>>

\* row["sentences"].append(line_dict) for the open charge (core.py 229)
ParserAppendsSentence ==
    /\ Building
    /\ parserOut.dockets # <<>>
    /\ LET n == Len(parserOut.dockets)
           c == Len(parserOut.dockets[n].charges)
       IN  /\ c > 0
           /\ \E dt \in SentenceDtInputs :
                parserOut' = [parserOut EXCEPT
                    !.dockets[n].charges[c].sentences =
                        Append(@, RawSentence(dt))]
    /\ UNCHANGED <<report, jsonDoc, report2, nonSchemaVars>>

\* CourtSummaryParser.__call__, last line: CourtSummary.from_dict(out)
FromDict ==
    /\ parserOut # NotYet
    /\ report = NotYet
    /\ report' = from_dict(parserOut)
    /\ UNCHANGED <<parserOut, jsonDoc, report2, nonSchemaVars>>

\* report.to_json()
ToJson ==
    /\ report.t = "CourtSummary"
    /\ jsonDoc = NotYet
    /\ jsonDoc' = to_json(report)
    /\ UNCHANGED <<parserOut, report, report2, nonSchemaVars>>

\* CourtSummary.from_json(...)
FromJson ==
    /\ jsonDoc # NotYet
    /\ report2 = NotYet
    /\ report2' = from_json(jsonDoc)
    /\ UNCHANGED <<parserOut, report, jsonDoc, nonSchemaVars>>

NextSchema ==
    \/ ParserAppendsDocket
    \/ ParserAppendsCharge
    \/ ParserAppendsSentence
    \/ FromDict
    \/ ToJson
    \/ FromJson

SpecSchema == InitSchema /\ [][NextSchema]_vars

(***************************************************************************)
(* Claims on the schema.                                                   *)
(***************************************************************************)
RoundTripDone == report2 # NotYet

\* C1: for every CourtSummary the parser produces,
\* CourtSummary.from_json(report.to_json()).to_dict() equals
\* report.to_dict(), at every nesting level and for date fields that are
\* absent, empty or None.
C1_RoundTripToDict ==
    RoundTripDone =>
        /\ report2.t = "CourtSummary"
        /\ to_dict(report2) = to_dict(report)

\* C1 witness: a round trip of a report with a sentence whose date is
\* empty, in a docket without its optional dates
C1_Witness ==
    /\ RoundTripDone
    /\ \E i \in DOMAIN parserOut.dockets :
        /\ "trial_dt" \notin DOMAIN parserOut.dockets[i]
        /\ \E c \in DOMAIN report.dockets[i].charges :
            \E n \in DOMAIN report.dockets[i].charges[c].sentences :
                report.dockets[i].charges[c].sentences[n].sentence_dt = PyNone

\* C2 (as claimed): the deserialized object equals the original field by
\* field, also for the optional date fields that hold their default.
C2_RoundTripEqual == RoundTripDone => report2 = report

\* C3: len(obj) is the length of the child list and obj[i] is child_list[i]
\* for every valid index, for CourtSummary, Docket and Charge.
C3_LenGetitem ==
    report.t = "CourtSummary" =>
        /\ CourtSummary__len__(report) = Len(report.dockets)
        /\ \A i \in 0..(Len(report.dockets) - 1) :
            LET d == report.dockets[i + 1] IN
            /\ CourtSummary__getitem__(report, i) = d
            /\ Docket__len__(d) = Len(d.charges)
            /\ \A c \in 0..(Len(d.charges) - 1) :
                LET ch == d.charges[c + 1] IN
                /\ Docket__getitem__(d, c) = ch
                /\ Charge__len__(ch) = Len(ch.sentences)
                /\ \A n \in 0..(Len(ch.sentences) - 1) :
                    Charge__getitem__(ch, n) = ch.sentences[n + 1]

\* C3 witness: a report of two different dockets, and one with a sentence
C3_Witness ==
    /\ report.t = "CourtSummary"
    /\ Len(report.dockets) = 2
    /\ report.dockets[1] # report.dockets[2]
    /\ Len(report.dockets[2].charges) = 1

(***************************************************************************)
(* Claims about the segment splitter, checked under SpecYield.             *)
(***************************************************************************)
\* C4: within one call of yield_dockets / _yield_dockets no docket number
\* is yielded twice, however often and wherever its identifier occurs.
C4_YieldedAtMostOnce ==
    yd # NotYet =>
        \A m, n \in DOMAIN yd.yielded :
            m # n => yd.yielded[m].docket_number # yd.yielded[n].docket_number

\* a finished call whose stream had the same identifier before and after
\* another one, and which yielded both numbers
C4_Witness ==
    /\ yd # NotYet
    /\ yd.status = "done"
    /\ \E p, q, r \in DOMAIN DocketNumbers(yd.words) :
        /\ p < q /\ q < r
        /\ DocketNumbers(yd.words)[p] = DocketNumbers(yd.words)[r]
        /\ DocketNumbers(yd.words)[p] # DocketNumbers(yd.words)[q]
    /\ Len(yd.yielded) = 2

\* C5: when the call has finished, every token from the first identifier of
\* the stream onwards lies in the slice of some yielded docket (the tokens
\* after a later occurrence of an identifier are kept).
C5_EveryTokenInSomeSlice ==
    (yd # NotYet /\ yd.status = "done" /\ DocketIndices(yd.words) # <<>>) =>
        \A p \in DocketIndices(yd.words)[1] .. Len(yd.words) - 1 :
            \E n \in DOMAIN yd.yielded :
                yd.yielded[n].start <= p /\ p < yd.yielded[n].stop

\* C9: a yielded docket carries the table entry of the integer value of its
\* county segment, which is one of 1..67 and never empty; a call whose
\* stream has an identifier with another value does not finish, and a call
\* that raised the lookup error stands at such an identifier, not yielded.
C9_CountyFromTable ==
    yd # NotYet =>
        /\ \A n \in DOMAIN yd.yielded :
            LET y == yd.yielded[n] IN
            /\ IntOfDigits(y.docket_number.code) \in 1..67
            /\ y.county = PyStr(COUNTY_CODES[IntOfDigits(y.docket_number.code)])
            /\ y.county # PyStr("")
        /\ yd.status = "done" =>
            \A n \in DOMAIN DocketNumbers(yd.words) :
                IntOfDigits(DocketNumbers(yd.words)[n].code) \in 1..67
        /\ yd.status = "KeyError" =>
            LET this == DocketNumbers(yd.words)[yd.i + 1] IN
            /\ IntOfDigits(this.code) \notin 1..67
            /\ \A n \in DOMAIN yd.yielded : yd.yielded[n].docket_number # this

\* a call that yielded the docket with the zero-padded code 046 as
\* Montgomery and then raised on the code 68
C9_Witness ==
    /\ yd # NotYet
    /\ yd.status = "KeyError"
    /\ \E n \in DOMAIN yd.yielded :
        /\ yd.yielded[n].docket_number = IdB
        /\ yd.yielded[n].county = PyStr("Montgomery")
    /\ DocketNumbers(yd.words)[yd.i + 1] = IdC

(***************************************************************************)
(* Claims about CourtSummaryParser.__call__, checked under Spec.           *)
(***************************************************************************)
\* the indices (from 0) of the section titles of the document
TitleIndices(words) == {p - 1 : p \in {q \in DOMAIN words : words[q].k = "title"}}

\* the index of the first title after index p, the length if there is none
NextTitleIndex(words, p) ==
    IF \E q \in TitleIndices(words) : q > p
    THEN CHOOSE q \in TitleIndices(words) :
            q > p /\ \A r \in TitleIndices(words) : r > p => q <= r
    ELSE Len(words)

\* index p lies in the Archived section of the document
InArchivedSection(words, p) ==
    /\ TitleLineNumbers(words, "Archived") # <<>>
    /\ Starts(words, "Archived") <= p
    /\ p < NextTitleIndex(words, Starts(words, "Archived"))

\* C6: the dockets of a returned CourtSummary have distinct docket numbers,
\* also when an identifier stands in two sections.
C6_DistinctDocketNumbers ==
    (call # NotYet /\ call.status = "done") =>
        \A m, n \in DOMAIN call.dockets :
            m # n => call.dockets[m].docket_number # call.dockets[n].docket_number

\* C7: the sections are sliced in ascending order of their title index, and
\* each slice runs from its title to the next title of the document (the
\* end for the last), whatever the order of the titles.
C7_SectionsInDocumentOrder ==
    call # NotYet =>
        \A k \in DOMAIN call.slices :
            /\ k > 1 => call.slices[k - 1].start < call.slices[k].start
            /\ call.slices[k].stop = NextTitleIndex(call.words, call.slices[k].start)

\* C8: no docket of a returned CourtSummary has a token of the Archived
\* section, and none has the status 'archived'.
C8_ArchivedExcluded ==
    (call # NotYet /\ call.status = "done") =>
        \A n \in DOMAIN call.dockets :
            /\ call.dockets[n].status # "archived"
            /\ \A p \in call.dockets[n].start .. call.dockets[n].stop - 1 :
                ~InArchivedSection(call.words, p)

\* a returned CourtSummary with a docket, from a document whose Archived
\* section holds a docket identifier
C8_Witness ==
    /\ call # NotYet
    /\ call.status = "done"
    /\ call.dockets # <<>>
    /\ \E p \in DOMAIN call.words :
        /\ IsDocketNumber(call.words[p])
        /\ InArchivedSection(call.words, p - 1)

(***************************************************************************)
(* Claims about the charge assembler, checked under SpecCharges.           *)
(***************************************************************************)
\* the pass just made read a continued field under a column key that is
\* neither a field of the open charge nor a field of its current sentence
ContinuedUnderUnknownKey ==
    /\ tbl.status = "loop"
    /\ tbl'.i = tbl.i + 1
    /\ LineKind(tbl.multiline_header, tbl.docket_number, tbl'.line) = "continued"
    /\ tbl.header # 0
    /\ \E key \in DOMAIN find_word_headers(tbl'.line,
                    header_lines(tbl.multiline_header)[tbl.header]) :
        /\ key \notin DOMAIN tbl.row.fields
        /\ \/ tbl.row.sentences = <<>>
           \/ key \notin DOMAIN tbl.row.sentences[Len(tbl.row.sentences)]

\* C10: a continuation line with a column key that is in neither the open
\* charge nor its current sentence makes the parse fail with an error.
C10_UnknownKeyRaises ==
    [][ContinuedUnderUnknownKey => tbl'.status \notin {"loop", "done"}]_vars

\* C11: when the assembler has gone through all lines of the body, the
\* charge that is open is the last entry of the output list, whatever kind
\* of line the last line was.
C11_LastChargeFlushed ==
    (tbl # NotYet /\ tbl.status = "done" /\ tbl.row.t = "dict"
        /\ tbl.row.has_sentences) =>
        /\ tbl.charges # <<>>
        /\ tbl.charges[Len(tbl.charges)] = tbl.row

(***************************************************************************)
(* Claims about find_word_headers, checked under SpecColumns.              *)
(***************************************************************************)
\* C12: the mapping of a line has the same content whatever the order of
\* the line's words, also when two words are nearest to the same column.
C12_OrderIndependent ==
    (fn # NotYet /\ fn.status = "done") => fn.out = fn.out2

\* the index (from 1) of the column a word goes to: the nearest x, the
\* lowest index among equally near ones
NearestIndex(header, w) ==
    CHOOSE k \in DOMAIN header :
        /\ \A m \in DOMAIN header : Abs(header[k].x - w.x) <= Abs(header[m].x - w.x)
        /\ \A m \in 1..(k - 1) : Abs(header[m].x - w.x) > Abs(header[k].x - w.x)

\* C19: every word of the line is assigned to the nearest column, the
\* lowest index on a tie, the mapping holds that column's name with the
\* word's text, and the mapping has no key that is not a column name.
C19_NearestColumn ==
    (fn # NotYet /\ fn.status = "done") =>
        /\ DOMAIN fn.out \subseteq {fn.header[k].text : k \in DOMAIN fn.header}
        /\ \A n \in DOMAIN fn.line :
            LET col == fn.header[NearestIndex(fn.header, fn.line[n])].text IN
            /\ col \in DOMAIN fn.out
            /\ fn.out[col] = <<fn.line[n].text>>

(***************************************************************************)
(* Claims about to_snake_case, checked under SpecKeys.                     *)
(***************************************************************************)
\* C13: to_snake_case is idempotent: applied to its own result it returns
\* a dict with the same keys and the same values; a key of the result has
\* no ".", no upper case letter and no whitespace.
C13_SnakeCaseIdempotent ==
    (fn # NotYet /\ fn.status = "done") =>
        /\ DictOf(fn.twice) = DictOf(fn.once)
        /\ \A n \in DOMAIN fn.once : \A m \in DOMAIN fn.once[n][1] :
            fn.once[n][1][m] \notin {".", "A", " "}

\* a call on a key of two words with an upper case letter and on a key with
\* a ".", which the first pass changes
C13_Witness ==
    /\ fn # NotYet
    /\ fn.status = "done"
    /\ fn.key1 = <<"A", " ", "a">>
    /\ fn.key2 = <<"a", ".">>
    /\ DictOf(fn.once) = (<<"a", "_", "a">> :> 1) @@ (<<"a">> :> 2)

(***************************************************************************)
(* Claims about the header deletion, checked under SpecStrip.              *)
(***************************************************************************)
\* the indices of the stream that the deletion kept
KeptIndices == {fn.words[n].at : n \in DOMAIN fn.words}

\* C14: the words that are kept stand in their original order; a deleted
\* word matches a boilerplate pattern and lies in the window of
\* max_header_size words that starts at a banner of the stream; a stream
\* without boilerplate is returned unchanged.
C14_OnlyBoilerplateInWindow ==
    (fn # NotYet /\ fn.status = "done") =>
        /\ \A n \in DOMAIN fn.words :
            /\ fn.words[n] = fn.input[fn.words[n].at + 1]
            /\ n > 1 => fn.words[n - 1].at < fn.words[n].at
        /\ \A p \in (0..Len(fn.input) - 1) \ KeptIndices :
            /\ IsBoilerplate(fn.variant, fn.input[p + 1])
            /\ \E pg \in 0..p :
                /\ MatchesHeaderPattern(fn.variant, fn.input[pg + 1])
                /\ p < pg + max_header_size
        /\ (\A p \in DOMAIN fn.input : ~IsBoilerplate(fn.variant, fn.input[p]))
            => fn.words = fn.input

(***************************************************************************)
(* Claims about the docket header words, checked under SpecHeader.         *)
(***************************************************************************)
\* the indices of the words that split into two parts, and of the others
TwoPart == {n \in DOMAIN fn.texts : Len(HeaderInfo(fn.texts)[n]) = 2}

NotTwoPart == DOMAIN fn.texts \ TwoPart

\* the words that `extra` has to hold: not two parts, first part not the
\* docket number
ForExtra ==
    {n \in NotTwoPart : HeaderInfo(fn.texts)[n][1] # HeaderDocketNumber}

\* the parts of word n stand in `extra`, as utils.py (flat) or core.py
\* (one list per word) records them
InExtra(n) ==
    LET value == HeaderInfo(fn.texts)[n]
    IN  IF fn.variant = "utils"
        THEN \E k \in 0..Len(fn.info.extra) - Len(value) :
                SubSeq(fn.info.extra, k + 1, k + Len(value)) = value
        ELSE \E k \in DOMAIN fn.info.extra : fn.info.extra[k] = value

\* entry k of `extra` comes from a word of ForExtra
FromExtraWord(k) ==
    \E n \in ForExtra :
        IF fn.variant = "utils"
        THEN \E m \in DOMAIN HeaderInfo(fn.texts)[n] :
                fn.info.extra[k] = HeaderInfo(fn.texts)[n][m]
        ELSE fn.info.extra[k] = HeaderInfo(fn.texts)[n]

\* the part of C15 about the words that do not split into two parts: the
\* split returns, such a word makes no entry of its own, and `extra` holds
\* exactly those of them whose first part is not the docket number
MalformedToExtra ==
    /\ fn.info # NotYet
    /\ \A n \in ForExtra : InExtra(n)
    /\ \A k \in DOMAIN fn.info.extra : FromExtraWord(k)
    /\ \A k \in DOMAIN fn.info.dict :
        \E n \in TwoPart : fn.info.dict[k][1] = HeaderInfo(fn.texts)[n][1]

Winner(n) ==
    LET same == {m \in TwoPart :
                    HeaderInfo(fn.texts)[m][1] = HeaderInfo(fn.texts)[n][1]}
    IN  IF fn.variant = "utils"
        THEN CHOOSE m \in same : \A o \in same : m <= o
        ELSE CHOOSE m \in same : \A o \in same : o <= m

MatchingIndices ==
    {p - 1 : p \in {q \in DOMAIN fn.words :
                        tester(fn.how, fn.words[q], fn.text)}}

\* C16: the list returned holds exactly the indices of the matching words,
\* ascending; without a match the search raises ValueError under
\* missing="raise" and returns the empty list (None or [] for the first
\* match) under "ignore"; a docket without a 'Seq No' word is split into all
\* its words as header and no body, and its charges are the empty list.
C16_FindLineNumbers ==
    /\ (fn # NotYet /\ fn.status = "returned") =>
        /\ fn.all.t = "list"
        /\ {fn.all.v[n] : n \in DOMAIN fn.all.v} = MatchingIndices
        /\ \A n \in DOMAIN fn.all.v : n > 1 => fn.all.v[n - 1] < fn.all.v[n]
        /\ MatchingIndices = {} =>
            /\ fn.missing = "ignore"
            /\ fn.all = PyList(<<>>)
            /\ fn.first = (IF fn.variant = "utils" THEN PyNone
                           ELSE PyList(<<>>))
        /\ MatchingIndices # {} => fn.first = PyInt(fn.all.v[1])
    /\ (fn # NotYet /\ fn.status = "ValueError") =>
        /\ MatchingIndices = {}
        /\ fn.missing = "raise"
    /\ (fn # NotYet /\ fn.status = "parsed"
            /\ \A p \in DOMAIN fn.words : fn.words[p] # "Seq No") =>
        /\ fn.parsed.docket_header = fn.words
        /\ fn.parsed.docket_body = <<>>
        /\ fn.parsed.charges = PyList(<<>>)

\* a search under "ignore" that matched nothing
C16_Witness ==
    /\ fn # NotYet
    /\ fn.status = "returned"
    /\ fn.words = <<"a", "Seq No.">>
    /\ fn.text = "Seq No"
    /\ fn.how = "equals"
    /\ fn.missing = "ignore"
    /\ fn.all = PyList(<<>>)

(***************************************************************************)
(* Claims about group_into_lines, checked under SpecGroup.                 *)
(***************************************************************************)
\* C17: any two words of a line that group_into_lines returns have y values
\* at most `tolerance` apart.
C17_LineWithinTolerance ==
    (fn # NotYet /\ fn.status = "done") =>
        \A n \in DOMAIN fn.result :
            \A a, b \in DOMAIN fn.result[n][2] :
                Abs(fn.result[n][2][a].y - fn.result[n][2][b].y) <= fn.tolerance

(***************************************************************************)
(* C18, checked under SpecYield.  Indices are those of the list after the  *)
(* header deletion, from 0.                                                *)
(***************************************************************************)
\* the indices of the identifiers that are the first of their docket number
FirstOccurrences ==
    {p \in 0..Len(yd.words) - 1 :
        /\ IsDocketNumber(yd.words[p + 1])
        /\ \A q \in 0..p - 1 : yd.words[q + 1] # yd.words[p + 1]}

\* the indices after p of the identifiers with another text than that at p
LaterOthers(p) ==
    {q \in p + 1..Len(yd.words) - 1 :
        /\ IsDocketNumber(yd.words[q + 1])
        /\ yd.words[q + 1] # yd.words[p + 1]}

\* where the slice that starts at p has to end
SliceEnd(p) ==
    IF LaterOthers(p) = {} THEN Len(yd.words)
    ELSE CHOOSE q \in LaterOthers(p) : \A r \in LaterOthers(p) : q <= r

\* C18: a yielded slice starts at the first occurrence of its docket number
\* and ends just before the next identifier with another text (at the end
\* of the stream if there is none); the slices are disjoint and in stream
\* order; a call that finishes has yielded one for every first occurrence.
C18_SliceBoundaries ==
    yd # NotYet =>
        /\ \A n \in DOMAIN yd.yielded :
            /\ yd.yielded[n].start \in FirstOccurrences
            /\ yd.yielded[n].docket_number = yd.words[yd.yielded[n].start + 1]
            /\ yd.yielded[n].stop = SliceEnd(yd.yielded[n].start)
            /\ yd.yielded[n].words =
                SubSeq(yd.words, yd.yielded[n].start + 1, yd.yielded[n].stop)
        /\ \A m, n \in DOMAIN yd.yielded :
            m < n => yd.yielded[m].stop <= yd.yielded[n].start
        /\ yd.status = "done" =>
            \A p \in FirstOccurrences :
                \E n \in DOMAIN yd.yielded : yd.yielded[n].start = p

\* a finished call on a stream where an identifier is followed at once by
\* itself and then by another one
C18_Witness ==
    /\ yd # NotYet
    /\ yd.status = "done"
    /\ Len(yd.words) >= 4
    /\ yd.words[1] = IdA
    /\ yd.words[2] = IdA
    /\ yd.words[3] = Other
    /\ yd.words[4] = IdB
    /\ Len(yd.yielded) = 2
    /\ yd.yielded[1].stop = 3

(***************************************************************************)
(* C20, checked under SpecCharges on the steps that read a line.           *)
(***************************************************************************)
\* a pass of the loop over the lines of the body was made
LineRead == tbl # NotYet /\ tbl.status = "loop" /\ tbl'.i = tbl.i + 1

\* the line of the pass is skipped: a header row, or its first word is the
\* docket number
IsSkipped ==
    \/ \E n \in DOMAIN header_lines(tbl.multiline_header) :
        Texts(tbl'.line) = Texts(header_lines(tbl.multiline_header)[n])
    \/ tbl'.line[1].text = tbl.docket_number

\* the first word of the line is all digits and at most 1 away from the
\* first column of the primary header row
DigitsUnderFirstColumn ==
    /\ isdigit(tbl'.line[1].text)
    /\ Abs(tbl'.line[1].x - HeaderRow0[1].x) <= 1

\* the line mapped against the primary header row, with no sentences
OpenedCharge ==
    [t |-> "dict", fields |-> find_word_headers(tbl'.line, HeaderRow0),
     has_sentences |-> TRUE, sentences |-> <<>>]

\* a charge is open before the pass
ChargeIsOpen == tbl.row.t = "dict" /\ tbl.row.has_sentences

\* the entries the flush of the last line adds
Flushed == IF tbl'.exhausted THEN <<tbl'.row>> ELSE <<>>

\* C20: a line that is read and not skipped opens a charge exactly if its
\* first word is all digits and within 1 of the first column of the primary
\* header row; the charge that was open is then appended once, and the new
\* charge is the line mapped against the primary header row with an empty
\* list of sentences; any other line leaves the open charge open and
\* appends nothing but the flush of the last line.
C20_OpensCharge ==
    [][(LineRead /\ ~IsSkipped) =>
        IF DigitsUnderFirstColumn
        THEN /\ tbl'.status = "loop"
             /\ tbl'.row = OpenedCharge
             /\ tbl'.charges =
                    tbl.charges
                    \o (IF ChargeIsOpen THEN <<tbl.row>> ELSE <<>>)
                    \o Flushed
        ELSE \/ tbl'.status # "loop" /\ tbl'.charges = tbl.charges
             \/ /\ tbl'.status = "loop"
                /\ ChargeIsOpen
                /\ tbl'.row.has_sentences
                /\ DOMAIN tbl'.row.fields = DOMAIN tbl.row.fields
                /\ Len(tbl'.row.sentences) >= Len(tbl.row.sentences)
                /\ tbl'.charges = tbl.charges \o Flushed]_vars

\* a second charge has just been opened by a line one unit right of the
\* first column, and the first charge stands in the output
C20_Witness ==
    /\ tbl # NotYet
    /\ tbl.status = "loop"
    /\ ~tbl.exhausted
    /\ tbl.i = 2
    /\ tbl.line = <<[x |-> 1, text |-> "1"], [x |-> 4, text |-> "a"]>>
    /\ Len(tbl.charges) = 1
    /\ tbl.row.t = "dict"
    /\ tbl.row.sentences = <<>>
    /\ tbl.row.fields = ("Seq No" :> <<"1">>) @@ ("Description" :> <<"a">>)

(***************************************************************************)
(* C21 to C24, checked under SpecCharges on the steps that read a line.    *)
(***************************************************************************)
\* the docket has a secondary header row and the first word of the line is
\* at most 1 away from its first column
AlignsSecondary ==
    /\ tbl.multiline_header
    /\ Abs(tbl'.line[1].x - HeaderRow1[1].x) <= 1

\* C21: with a charge open, a line that is read, opens no charge and is
\* aligned with the secondary header row is mapped against that row and
\* becomes the new last sentence of the open charge; the fields of the
\* charge, its earlier sentences and the charges already in the output stay
\* as they are (the flush of the last line puts the open charge itself in
\* the output).
C21_SentenceAppended ==
    [][(LineRead /\ ~IsSkipped /\ ~DigitsUnderFirstColumn /\ AlignsSecondary
            /\ ChargeIsOpen) =>
        /\ tbl'.status = "loop"
        /\ tbl'.row.fields = tbl.row.fields
        /\ tbl'.row.sentences =
            Append(tbl.row.sentences, find_word_headers(tbl'.line, HeaderRow1))
        /\ tbl'.charges = tbl.charges \o Flushed]_vars

\* the open charge has a first sentence and the line just read, one unit
\* left of the secondary header row, became its second
C21_Witness ==
    /\ tbl # NotYet
    /\ tbl.status = "loop"
    /\ tbl.i = 3
    /\ tbl.line = <<[x |-> 1, text |-> "a"], [x |-> 4, text |-> "a"]>>
    /\ tbl.row.t = "dict"
    /\ Len(tbl.row.sentences) = 2
    /\ tbl.row.sentences[2] =
        ("Sentence Dt." :> <<"a">>) @@ ("Sentence Type" :> <<"a">>)
    /\ tbl.charges = <<tbl.row>>

\* the header row last used: that of the last charge or sentence line
LastHeader == header_lines(tbl.multiline_header)[tbl.header]

RECURSIVE ColumnText(_, _, _)
\* the texts of the words of the line that stand under the column, from
\* left to right, each after one space
ColumnText(line, header, col) ==
    IF line = <<>> THEN <<>>
    ELSE (IF NearestColumn(header, line[1]) = col
          THEN <<" ", line[1].text>> ELSE <<>>)
         \o ColumnText(Tail(line), header, col)

\* a line that is read, not skipped, opens no charge and is not aligned
\* with the secondary header row, while a charge is open
ContinuationRead ==
    /\ LineRead
    /\ ~IsSkipped
    /\ ~DigitsUnderFirstColumn
    /\ ~AlignsSecondary
    /\ ChargeIsOpen

\* C22: a continuation line is mapped against the header row last used, and
\* every field of the open charge whose column the line has words under
\* grows by one space and those words, all of them, from left to right; the
\* numbers of charges and of sentences stay as they are.
C22_ContinuationKeepsAllWords ==
    [][ContinuationRead =>
        /\ tbl'.status = "loop"
        /\ DOMAIN tbl'.row.fields = DOMAIN tbl.row.fields
        /\ \A key \in DOMAIN tbl.row.fields :
            tbl'.row.fields[key] =
                tbl.row.fields[key] \o ColumnText(tbl'.line, LastHeader, key)
        /\ Len(tbl'.row.sentences) = Len(tbl.row.sentences)
        /\ tbl'.charges = tbl.charges \o Flushed]_vars

\* C23: on a continuation line after a sentence line, a key of the mapped
\* line that is no field of the open charge but a field of its last
\* sentence has the line's text appended to that sentence field after one
\* space.
C23_SentenceFieldContinued ==
    [][(ContinuationRead /\ tbl.header = 2 /\ tbl.row.sentences # <<>>) =>
        LET line_dict == find_word_headers(tbl'.line, HeaderRow1)
            last == Len(tbl.row.sentences)
        IN  \A key \in DOMAIN line_dict :
                (key \notin DOMAIN tbl.row.fields
                    /\ key \in DOMAIN tbl.row.sentences[last]) =>
                    /\ tbl'.status = "loop"
                    /\ Len(tbl'.row.sentences) = last
                    /\ tbl'.row.sentences[last][key] =
                        tbl.row.sentences[last][key] \o <<" ">>
                            \o line_dict[key]]_vars

\* the line is a repeated header row, or its only word is the docket number
SkippedAsClaimed ==
    \/ \E n \in DOMAIN header_lines(tbl.multiline_header) :
        Texts(tbl'.line) = Texts(header_lines(tbl.multiline_header)[n])
    \/ Texts(tbl'.line) = <<tbl.docket_number>>

\* C24: a line whose texts are those of a header row, or whose only word is
\* the docket number, changes neither the open charge nor the output list
\* of charges nor the header row used for later continuation lines.
C24_SkippedLineChangesNothing ==
    [][(LineRead /\ SkippedAsClaimed) =>
        /\ tbl'.status = "loop"
        /\ tbl'.row = tbl.row
        /\ tbl'.charges = tbl.charges
        /\ tbl'.header = tbl.header]_vars

\* a docket number line was read after a charge line; the charge is open
\* as the charge line left it
C24_Witness ==
    /\ tbl # NotYet
    /\ tbl.status = "loop"
    /\ tbl.i = 2
    /\ tbl.line = <<[x |-> 0, text |-> TableDocketNumber]>>
    /\ tbl.row.t = "dict"
    /\ tbl.row.fields = ("Seq No" :> <<"1">>)
    /\ tbl.header = 1

\* C25: after the header deletion no word that matches the banner pattern
\* is left in the stream, wherever the banner stood, as the last or the
\* last but one word too.
C25_NoBannerLeft ==
    (fn # NotYet /\ fn.status = "done") =>
        \A n \in DOMAIN fn.words : ~MatchesHeaderPattern(fn.variant, fn.words[n])

\* the words t whose closed interval [t.y - tolerance, t.y + tolerance]
\* holds y
Covering(y) ==
    {fn.words[n] : n \in {m \in DOMAIN fn.words :
        /\ fn.words[m].y - fn.tolerance <= y
        /\ y <= fn.words[m].y + fn.tolerance}}

\* the words of a list
WordsOf(values) == {values[n] : n \in DOMAIN values}

\* C26: for each distinct y of the words, the line built for y holds
\* exactly the words whose closed interval [y - tolerance, y + tolerance]
\* holds y, in ascending x, and is recorded under y unless the same list is
\* recorded under an earlier key; no words give the empty result.
C26_LineIsClosedCover ==
    (fn # NotYet /\ fn.status = "done") =>
        /\ fn.words = <<>> => fn.result = <<>>
        /\ \A n \in DOMAIN fn.result :
            /\ WordsOf(fn.result[n][2]) = Covering(fn.result[n][1])
            /\ \A a \in DOMAIN fn.result[n][2] :
                a > 1 => fn.result[n][2][a - 1].x <= fn.result[n][2][a].x
            /\ n > 1 => fn.result[n - 1][1] < fn.result[n][1]
        /\ \A k \in DOMAIN fn.ys :
            \/ \E n \in DOMAIN fn.result : fn.result[n][1] = fn.ys[k]
            \/ \E n \in DOMAIN fn.result :
                /\ fn.result[n][1] < fn.ys[k]
                /\ WordsOf(fn.result[n][2]) = Covering(fn.ys[k])

\* C27: the lines returned are a partition of the words: every word is in
\* exactly one line.
C27_LinesPartitionWords ==
    (fn # NotYet /\ fn.status = "done") =>
        \A w \in WordsOf(fn.words) :
            /\ \E n \in DOMAIN fn.result : w \in WordsOf(fn.result[n][2])
            /\ \A n, m \in DOMAIN fn.result :
                (w \in WordsOf(fn.result[n][2]) /\ w \in WordsOf(fn.result[m][2]))
                    => n = m

(***************************************************************************)
(* Claims about scrape_remote_urls, checked under SpecScrape.              *)
(***************************************************************************)
\* C28: under errors="ignore" the call returns without raising although a
\* url failed in all its attempts, every url of the list was tried, and
\* the results hold one report for each url scraped, in the order of the
\* urls.
C28_FailedUrlSkipped ==
    (dl # NotYet /\ dl.errors = "ignore" /\ dl.n > 0) =>
        /\ dl.pc # "raised"
        /\ dl.pc = "returned" => dl.tried = 0..dl.n - 1
        /\ \A k \in DOMAIN dl.results :
            /\ dl.results[k].url \in dl.tried
            /\ k > 1 => dl.results[k - 1].url < dl.results[k].url

\* C29: the report appended for urls[i] is parsed from the file downloaded
\* for urls[i], and the directory holds no PDF when driver.get is about to
\* start a download.
C29_ReportFromOwnDownload ==
    dl # NotYet =>
        /\ \A k \in DOMAIN dl.results : dl.results[k].file = dl.results[k].url
        /\ dl.pc = "get" => PdfFiles(dl) = {}

\* the words of the section that pass call.i of the section loop slices
SectionWords ==
    PySlice(call.words, SectionStart(call.words, call.sections, call.i),
            SectionStop(call.words, call.sections, call.i))

\* C30: the pass of the section loop over a section that is not "Archived"
\* and whose words hold no docket number appends no docket, and the loop
\* goes on to the next section: the call does not end in an exception.
C30_SectionWithoutDocketNumber ==
    [][(/\ call # NotYet
        /\ call.status = "sections"
        /\ call.i < Len(call.sections)
        /\ ~SkipsSection(call.sections[call.i + 1])
        /\ \A p \in DOMAIN SectionWords : ~IsDocketNumber(SectionWords[p])
        /\ call' # call) =>
            /\ call'.status = "sections"
            /\ call'.i = call.i + 1
            /\ call'.dockets = call.dockets]_vars

====
